---- MODULE Spec2Model ----
(***************************************************************************)
(* Supervision engine of the MCP proxy manager (individual mode):          *)
(* PortManager, ProxyManager, HealthMonitor and the reconciler of          *)
(* MCPProxyManagerApp.                                                     *)
(*                                                                         *)
(* The program is single-threaded JavaScript: an async function runs       *)
(* atomically from one suspension point (a timer, a child-process          *)
(* operation, an HTTP probe, a file read) to the next.  Every action below *)
(* is one such run.  A task is a stack of frames; the top frame names the  *)
(* suspension point the task is waiting at.  Timers carry the remaining    *)
(* time in seconds and fire in the order in which they expire.             *)
(***************************************************************************)
EXTENDS Integers, Sequences, FiniteSets, TLC

\* ------------------------------------------------------------------ bounds

MaxSpawns == 4

MaxEvents == 1

MaxReloads == 1

\* Bound on the number of EnvironmentManager calls, restarts and waits
MaxEnvOps == 3

\* ------------------------------------------------------- program constants

PortStart == 4000

NumPorts == 3

maxRetryAttempts == 3

RestartCap == 3

StopGrace == 3

RestartPause == 1

ExitRestartDelay == 5

portReuseDelay == 10

StdioInitDelay == 8

PersistentInitDelay == 15

RetryReadDelay == 2

RemovalGap == 2

MassRemovalDelay == 5

MassRemovalThreshold == 3

MassShutdownGuard == 2

AlertConsecutive == 3

AlertFailureRate == 80

RemedyConsecutive == 5

RemedyFailureRate == 90

RecentWindow == 10

ValidateTimeout == 10

CleanTimeout == 40

maxHistorySize == 100

PortEnd == PortStart + NumPorts - 1

Ports == PortStart..PortEnd

NoPort == 0

defaultProxyType == "mcpo"

ProxyTypes == {"mcpo", "mcp-bridge"}

allowedCommands == {"uvx", "python", "python3", "node", "npm", "npx", "uv", "pip", "pip3"}

Servers == {"a", "b", "c"}

\* --------------------------------------------------------- configuration

\* A command is its path, a sequence of segments; basename is the last one.
\* A parsed server (ConfigParser.parseMCPServer): hasProxyType says whether
\* the config entry carried the key proxyType, env whether the record has an
\* env property (stdio records always do, sse records do not), pkg the
\* package extractPackageName finds (npx -y <package>) or "none", argsOk
\* whether every argument passes validateArgs.
SpecA ==
  [id |-> "a", transport |-> "stdio", command |-> <<"npx">>, pkg |-> "pa",
   argsOk |-> TRUE, hasProxyType |-> FALSE, proxyType |-> "none",
   needsProxy |-> TRUE, env |-> "e0"]

SpecA2 ==
  [id |-> "a", transport |-> "stdio", command |-> <<"usr", "bin", "bash">>,
   pkg |-> "none", argsOk |-> TRUE, hasProxyType |-> TRUE,
   proxyType |-> "mcp-bridge", needsProxy |-> TRUE, env |-> "e0"]

SpecB ==
  [id |-> "b", transport |-> "stdio", command |-> <<"python">>, pkg |-> "none",
   argsOk |-> TRUE, hasProxyType |-> FALSE, proxyType |-> "none",
   needsProxy |-> TRUE, env |-> "e0"]

\* b with needsProxy: false in its entry: a server that is not proxied
SpecBN == [SpecB EXCEPT !.needsProxy = FALSE]

SpecC ==
  [id |-> "c", transport |-> "sse", command |-> <<>>, pkg |-> "none",
   argsOk |-> TRUE, hasProxyType |-> FALSE, proxyType |-> "none",
   needsProxy |-> TRUE, env |-> "absent"]

\* The documents the configuration file may hold, each as the list
\* getMCPServers returns for it (an unparsable file gives the empty list).
Docs == { <<SpecA, SpecB, SpecC>>, <<SpecA, SpecC>>, <<SpecA2>>, <<SpecBN, SpecC>>, <<>> }

getMCPServers(doc) == doc

Range(s) == { s[i] : i \in 1..Len(s) }

DocIds(doc) == { x.id : x \in Range(doc) }

\* environmentManager.updateServerConfigWithEnvFile followed by the merge
\* of the global container variables: the result always has an env
\* property.  No environment file and no global variable is stored here.
Enhance(server) ==
  [server EXCEPT !.env = IF server.env = "absent" THEN "e0" ELSE server.env]

\* ------------------------------------------------------------------ state

VARIABLES
  allocatedPorts,   \* PortManager.allocatedPorts
  serverPorts,      \* PortManager.serverPorts: serverId -> port
  runningProxies,   \* ProxyManager.runningProxies: serverId -> proxy info
  fallbackAttempts, \* ProxyManager.fallbackAttempts
  serverErrors,     \* ProxyManager.serverErrors
  currentServers,   \* MCPProxyManagerApp.currentServers
  healthHistory,    \* HealthMonitor.healthHistory
  children,         \* the child processes spawned so far, by pid
  tasks,            \* the suspended async calls, each a stack of frames
  configFile,       \* the content of the configuration file
  cacheValidationCache, \* InstallationManager.cacheValidationCache: the
                    \* packages with a validation result of the last 5 minutes
  fault,            \* what is wrong with the host: "none", "bridgeDir" (a file
                    \* under mcpBridgeConfigDir cannot be written),
                    \* "npmCache" (npm cache verify and clean fail) or
                    \* "sigterm" (the children take no notice of SIGTERM)
  events,           \* number of external events so far
  log,              \* what the last step did (observations only)
  env,              \* the EnvironmentManager, its EncryptionManager and the
                    \* env files on disk, in each storage mode side by side
  envRet,           \* the last EnvironmentManager call and what it returned
  unified,          \* the UnifiedProxyManager, its children and pending calls
  multi             \* the supergateway processes of the
                    \* MultiTransportUnifiedProxyManager and their timers

vars ==
  <<allocatedPorts, serverPorts, runningProxies, fallbackAttempts,
    serverErrors, currentServers, healthHistory, children, tasks,
    cacheValidationCache, configFile, fault, events, log, env, envRet,
    unified, multi>>

\* The supervisor's state as one value, threaded through a run.
Cur ==
  [allocatedPorts |-> allocatedPorts, serverPorts |-> serverPorts,
   runningProxies |-> runningProxies, fallbackAttempts |-> fallbackAttempts,
   serverErrors |-> serverErrors, currentServers |-> currentServers,
   healthHistory |-> healthHistory, children |-> children, tasks |-> tasks,
   cacheValidationCache |-> cacheValidationCache, log |-> <<>>, ok |-> TRUE]

Commit(S) ==
  /\ S.ok
  /\ allocatedPorts' = S.allocatedPorts
  /\ serverPorts' = S.serverPorts
  /\ runningProxies' = S.runningProxies
  /\ fallbackAttempts' = S.fallbackAttempts
  /\ serverErrors' = S.serverErrors
  /\ currentServers' = S.currentServers
  /\ healthHistory' = S.healthHistory
  /\ children' = S.children
  /\ tasks' = S.tasks
  /\ cacheValidationCache' = S.cacheValidationCache
  /\ log' = S.log
  /\ UNCHANGED <<env, envRet, unified, multi>>

Ev(kind, sid, n) == [kind |-> kind, sid |-> sid, n |-> n]

Note(S, kind, sid) == [S EXCEPT !.log = Append(@, Ev(kind, sid, 0))]

NoteN(S, kind, sid, n) == [S EXCEPT !.log = Append(@, Ev(kind, sid, n))]

\* Map helpers (JavaScript Map: set, delete).
MapSet(m, k, v) == [x \in DOMAIN m \cup {k} |-> IF x = k THEN v ELSE m[x]]

MapDel(m, k) == [x \in DOMAIN m \ {k} |-> m[x]]

EmptyMap == [x \in {} |-> 0]

\* ----------------------------------------------------- EnvironmentManager

\* The three outcomes of initializeEnvironmentDirectory: the persistent
\* directory, the tmpfs directory, no directory (memory only)
StorageModes == {"persistent", "tmpfs", "memory"}

EnvIds == {"youtube", "a"}

EnvKeys == {"YOUTUBE_API_KEY", "BASE_URL"}

\* Secret values: strings, the empty string among them
EnvValues == {"", "v1", "v2"}

\* The maps from names to values a caller may save
EnvMaps == UNION { [K -> EnvValues] : K \in SUBSET EnvKeys }

\* key.toLowerCase().includes(word), for the keys above
lowerIncludes(key, word) ==
  \/ key = "YOUTUBE_API_KEY" /\ word = "key"
  \/ key = "BASE_URL" /\ word = "url"

getRequiredKeysForServer(serverId) ==
  IF serverId = "youtube" THEN <<"YOUTUBE_API_KEY">> ELSE <<>>

getOptionalKeysForServer(serverId) ==
  IF serverId = "youtube" THEN <<"YOUTUBE_TRANSCRIPT_LANG">> ELSE <<>>

isRequiredKey(serverId, key) ==
  \E i \in 1..Len(getRequiredKeysForServer(serverId)) :
     getRequiredKeysForServer(serverId)[i] = key

maskValue(key) ==
  IF lowerIncludes(key, "key") \/ lowerIncludes(key, "token")
  THEN "mask16" ELSE "mask8"

inferVariableType(key) ==
  IF lowerIncludes(key, "key") THEN "api_key"
  ELSE IF lowerIncludes(key, "token") THEN "token"
  ELSE IF lowerIncludes(key, "password") THEN "password"
  ELSE IF lowerIncludes(key, "secret") THEN "secret"
  ELSE IF lowerIncludes(key, "url") THEN "url"
  ELSE "string"

\* getEnvFilePath: null (the empty path here) without a directory
getEnvFilePath(mode, serverId) ==
  IF mode = "memory" THEN <<>> ELSE <<mode, serverId, "env.json">>

tempInPlace(envFilePath) == envFilePath

\* saveEnvironmentVariables: tempPath = `${envFilePath}.tmp`
tempPath(envFilePath) == Append(envFilePath, "tmp")

\* fs.existsSync(getEnvFilePath(serverId)); existsSync(null) is false
envFileExists(mode, st, serverId) ==
  getEnvFilePath(mode, serverId) \in DOMAIN st.disk

\* A file whose write was cut short, and a file written to the end
Partial == [written |-> FALSE]

Whole(data) == [written |-> TRUE, data |-> data]

\* fs.writeFileSync, fs.renameSync and fs.unlinkSync on the disk of a store
writeFileSync(st, file, content) ==
  [st EXCEPT !.disk = MapSet(@, file, content)]

renameSync(st, from, to) ==
  IF from = to THEN st
  ELSE [st EXCEPT !.disk = MapSet(MapDel(@, from), to, st.disk[from])]

unlinkSync(st, file) == [st EXCEPT !.disk = MapDel(@, file)]

\* EncryptionManager.encrypt: createCipherGCM throws where the crypto module
\* has no such function (E.gcm false); the result ties the plaintext to the
\* master key
canEncrypt(E, plaintext) == plaintext # "" /\ E.gcm

encrypt(E, plaintext) ==
  [data |-> <<E.masterKey, plaintext>>, algorithm |-> "aes-256-gcm",
   timestamp |-> E.clock]

isValidEncryptedData(data) ==
  {"data", "algorithm", "timestamp"} \subseteq DOMAIN data

\* EncryptionManager.decrypt: throws without createDecipherGCM and when the
\* authentication tag does not fit the master key
canDecrypt(E, encryptedData) ==
  E.gcm /\ encryptedData.data[1] = E.masterKey

decrypt(E, encryptedData) == encryptedData.data[2]

\* The keys saveEnvironmentVariables encrypts: value && typeof value === 'string'
encryptedKeys(variables) == { k \in DOMAIN variables : variables[k] # "" }

\* saveEnvironmentVariables: envFileData
envFileData(E, serverId, variables) ==
  [serverId |-> serverId, lastUpdated |-> E.clock,
   variables |-> [k \in encryptedKeys(variables) |-> encrypt(E, variables[k])],
   keyCount |-> Cardinality(encryptedKeys(variables))]

\* loadEnvironmentVariables on one store: the store after the call and
\* the value returned
loadEnvironmentVariables(E, mode, st, serverId) ==
  LET hit == serverId \in DOMAIN st.cache /\ st.cache[serverId].fresh
      st1 == IF serverId \in DOMAIN st.cache
             THEN [st EXCEPT !.cache = MapDel(@, serverId)] ELSE st
      content == st.disk[getEnvFilePath(mode, serverId)]
      vars1 == content.data.variables
      ks == { k \in DOMAIN vars1 :
                isValidEncryptedData(vars1[k]) /\ canDecrypt(E, vars1[k]) }
      decryptedVars == [k \in ks |-> decrypt(E, vars1[k])]
  IN IF hit THEN [st |-> st, out |-> st.cache[serverId].data]
     ELSE IF ~envFileExists(mode, st1, serverId)
     THEN [st |-> st1, out |-> EmptyMap]
     ELSE IF ~content.written
     THEN [st |-> st1, out |-> EmptyMap]
     ELSE [st |-> [st1 EXCEPT !.cache =
                     MapSet(@, serverId, [data |-> decryptedVars, fresh |-> TRUE])],
           out |-> decryptedVars]

getEnvironmentSummaryPlain(E, mode, st, serverId) ==
  IF ~envFileExists(mode, st, serverId)
  THEN [exists |-> FALSE]
  ELSE [exists |-> TRUE, variables |-> st.disk[getEnvFilePath(mode, serverId)]]

\* getEnvironmentSummary on one store
getEnvironmentSummary(E, mode, st, serverId) ==
  LET content == st.disk[getEnvFilePath(mode, serverId)]
  IN IF ~envFileExists(mode, st, serverId)
     THEN [exists |-> FALSE, variables |-> EmptyMap, lastUpdated |-> "null",
           requiredKeys |-> getRequiredKeysForServer(serverId),
           optionalKeys |-> getOptionalKeysForServer(serverId)]
     ELSE IF ~content.written
     THEN [exists |-> FALSE, variables |-> EmptyMap, lastUpdated |-> "null",
           error |-> "JSON.parse"]
     ELSE [exists |-> TRUE,
           variables |-> [k \in DOMAIN content.data.variables |->
                            [set |-> TRUE, masked |-> maskValue(k),
                             type |-> inferVariableType(k),
                             required |-> isRequiredKey(serverId, k)]],
           lastUpdated |-> content.data.lastUpdated,
           keyCount |-> content.data.keyCount,
           requiredKeys |-> getRequiredKeysForServer(serverId),
           optionalKeys |-> getOptionalKeysForServer(serverId)]

\* deleteEnvironmentVariables on one store (it returns true either way)
deleteEnvironmentVariables(E, mode, st, serverId) ==
  IF envFileExists(mode, st, serverId)
  THEN [unlinkSync(st, getEnvFilePath(mode, serverId))
          EXCEPT !.cache = MapDel(@, serverId)]
  ELSE st

\* saveEnvironmentVariables without a directory: the cache entry only
saveToMemory(st, serverId, variables) ==
  [st EXCEPT !.cache = MapSet(@, serverId, [data |-> variables, fresh |-> TRUE])]

\* saveEnvironmentVariables with a directory fails when a value cannot be
\* encrypted: encrypt throws and the catch returns false
saveFails(E, mode, variables) ==
  mode # "memory" /\ \E k \in encryptedKeys(variables) : ~canEncrypt(E, variables[k])

\* A store after the constructor: no file on disk, nothing cached
EmptyStore == [disk |-> EmptyMap, cache |-> EmptyMap]

\* The EnvironmentManager and its EncryptionManager after construction.
\* gcm: the crypto module has createCipherGCM and createDecipherGCM;
\* keyOnDisk: the master key file could be written, so a restart loads the
\* same key.  The three storage modes are kept side by side and every call
\* is applied to each.  saved is the bundle of the last save that completed,
\* per mode and server (an observation, the code does not have it).
EnvFresh(gcm, keyOnDisk) ==
  [gcm |-> gcm, keyOnDisk |-> keyOnDisk, masterKey |-> 0, clock |-> 0,
   ops |-> 0, pend |-> [active |-> FALSE],
   store |-> [m \in StorageModes |-> EmptyStore],
   saved |-> [m \in StorageModes |-> EmptyMap]]

NoCall ==
  [op |-> "none", serverId |-> "-", arg |-> EmptyMap,
   out |-> [m \in StorageModes |-> TRUE]]

\* The UnifiedProxyManager after its constructor.  mcpoProcess is the pid of
\* the child the manager refers to (0 for null); procs are the children spawned
\* so far; calls are the suspended calls of start, stop and restart and the
\* pending restart timers; halted says that the application has exited.
\* crashes, started, shutdown and streak are observations: the number of
\* crashes so far, whether the application has called start, whether it has
\* been told to shut down, and the number of restarts since start last saw
\* the child healthy.
UnifiedFresh ==
  [mcpoProcess |-> 0, mcpoPort |-> NoPort, restartCount |-> 0,
   isHealthy |-> FALSE, procs |-> <<>>, calls |-> <<>>, halted |-> FALSE,
   crashes |-> 0, started |-> FALSE, shutdown |-> FALSE, streak |-> 0]

\* this.servers (the stdio servers of the config) and the enabled transports
\* other than openapi
GatewayServers == {"a"}

GatewayTransports == {"sse", "websocket"}

\* processKey: `${serverId}-${transport}`
ProcessKeys == GatewayServers \X GatewayTransports

\* The MultiTransportUnifiedProxyManager without a supergateway process.
\* supergatewayProcesses maps a process key to the index of its info object
\* and its child; infos are the info objects made so far; procs are the
\* children spawned so far, each with the info object its exit listener closed
\* over; timers are the pending timers; halted says that the application has
\* ended.  started, stopping, crashes and restarts are observations: whether
\* the transports were started, whether stop was called, the number of crashes
\* so far, and the restarts scheduled so far for each process key.
MultiFresh ==
  [supergatewayProcesses |-> EmptyMap, infos |-> <<>>, procs |-> <<>>,
   timers |-> <<>>, transportHealth |-> EmptyMap, halted |-> FALSE,
   started |-> FALSE, stopping |-> FALSE, stopped |-> FALSE, crashes |-> 0,
   restarts |-> [key \in ProcessKeys |-> 0]]

\* ------------------------------------------------------------ PortManager

FreePorts(S) == { p \in Ports : p \notin S.allocatedPorts }

Highest(ps) == CHOOSE p \in ps : \A q \in ps : p >= q

Lowest(ps) == CHOOSE p \in ps : \A q \in ps : p <= q

\* allocatePort: the port of the call, NoPort for null.
allocatedPortOf(S, serverId) ==
  IF serverId \in DOMAIN S.serverPorts THEN S.serverPorts[serverId]
  ELSE IF FreePorts(S) = {} THEN NoPort
  ELSE Lowest(FreePorts(S))

allocatePortUnchecked(S, serverId) ==
  IF FreePorts(S) = {} THEN S
  ELSE [S EXCEPT !.allocatedPorts = @ \cup {Lowest(FreePorts(S))},
                 !.serverPorts = MapSet(@, serverId, Lowest(FreePorts(S)))]

allocatePort(S, serverId) ==
  IF serverId \in DOMAIN S.serverPorts \/ FreePorts(S) = {} THEN S
  ELSE [S EXCEPT !.allocatedPorts = @ \cup {Lowest(FreePorts(S))},
                 !.serverPorts = MapSet(@, serverId, Lowest(FreePorts(S)))]

deallocatePort(S, serverId) ==
  IF serverId \in DOMAIN S.serverPorts
  THEN [S EXCEPT !.allocatedPorts = @ \ {S.serverPorts[serverId]},
                 !.serverPorts = MapDel(@, serverId)]
  ELSE S

\* ------------------------------------------------ ProxyManager: primitives

\* recordError: the record keeps the type and whether the message contains
\* 'Health check failed'.
recordError(S, serverId, errorType, healthMsg) ==
  [S EXCEPT !.serverErrors =
     MapSet(@, serverId, [errorType |-> errorType, healthMsg |-> healthMsg])]

clearServerError(S, serverId) ==
  [S EXCEPT !.serverErrors = MapDel(@, serverId)]

\* path.basename
basename(command) == IF command = <<>> THEN "" ELSE command[Len(command)]

\* validateCommand: TRUE when the command is returned, FALSE for null.  No
\* modelled path holds "..", ";", "&" or "|".
validateCommand(command) == basename(command) \in allowedCommands

\* What spawnProxy hands to validateCommand: the launcher, not the server's
\* command.
SpawnCommand(cfg, proxyType) == <<"uvx">>

\* validateArgs throws for the mcpo argv, which holds the server's command
\* and arguments; the mcp-bridge argv is ["mcp-bridge"] alone.
validateArgs(cfg, proxyType) == proxyType = "mcp-bridge" \/ cfg.argsOk

IsPersistent(cfg) == cfg.transport \in {"sse", "streamable-http"}

\* The result of spawnProxy: "ok" a child process, "null", or "throw".
SpawnOutcome(cfg, proxyType) ==
  IF IsPersistent(cfg) THEN "ok"
  ELSE IF proxyType = "mcp-bridge" /\ fault = "bridgeDir" THEN "null"
  ELSE IF ~validateArgs(cfg, proxyType) THEN "throw"
  ELSE IF ~validateCommand(SpawnCommand(cfg, proxyType)) THEN "throw"
  ELSE "ok"

extractPackageName(cfg) == cfg.pkg

\* spawnProxy awaits validateNpmCache, and cleanNpmCache after it when the
\* cache is found corrupted; a validation result of the last 5 minutes is
\* returned at once
SpawnSuspends(S, cfg) ==
  /\ ~IsPersistent(cfg)
  /\ extractPackageName(cfg) # "none"
  /\ fault = "npmCache" \/ extractPackageName(cfg) \notin S.cacheValidationCache

\* The longest the two can take: the timeouts of their commands
SpawnDeadline == IF fault = "npmCache" THEN ValidateTimeout + CleanTimeout ELSE ValidateTimeout

\* The cache validation of spawnProxy is over
validated(S, cfg) ==
  IF fault = "npmCache"
  THEN recordError(S, cfg.id, "dependency", FALSE)
  ELSE [S EXCEPT !.cacheValidationCache = @ \cup {extractPackageName(cfg)}]

initDelay(cfg) == IF IsPersistent(cfg) THEN PersistentInitDelay ELSE StdioInitDelay

FreshInfo == [attempts |-> {}, totalAttempts |-> 0, stale |-> TRUE]

InfoOf(S, serverId) ==
  IF serverId \in DOMAIN S.fallbackAttempts THEN S.fallbackAttempts[serverId]
  ELSE FreshInfo

AltType(type) == IF type = "mcpo" THEN "mcp-bridge" ELSE "mcpo"

initialType(cfg) == IF cfg.hasProxyType THEN cfg.proxyType ELSE defaultProxyType

\* Faulty variant of the try order: the alternate type is a candidate even
\* when the spec names its proxy type
TryOrderAlways(cfg, info) ==
  (IF initialType(cfg) \notin info.attempts THEN <<initialType(cfg)>> ELSE <<>>)
  \o (IF AltType(initialType(cfg)) \notin info.attempts
      THEN <<AltType(initialType(cfg))>> ELSE <<>>)

\* Build try order, excluding already attempted types
TryOrder(cfg, info) ==
  (IF initialType(cfg) \notin info.attempts THEN <<initialType(cfg)>> ELSE <<>>)
  \o (IF ~cfg.hasProxyType /\ AltType(initialType(cfg)) \notin info.attempts
      THEN <<AltType(initialType(cfg))>> ELSE <<>>)

\* Faulty variant of the retry limit: one attempt too many is let through
RetryLimitExceeded(info) == info.totalAttempts > maxRetryAttempts

\* The retry limit of startProxy
RetryLimitReached(info) == info.totalAttempts >= maxRetryAttempts

\* Track this attempt
TrackAttempt(info, proxyType) ==
  [attempts |-> info.attempts \cup {proxyType},
   totalAttempts |-> info.totalAttempts + 1, stale |-> FALSE]

\* ChildProcess.kill: a live child takes the signal and killed becomes true;
\* for a child that has exited kill returns false and changes nothing.  A
\* child that takes no notice of SIGTERM goes on running.
kill(S, pid) ==
  IF S.children[pid].state = "exited" THEN S
  ELSE IF fault = "sigterm" THEN [S EXCEPT !.children[pid].killed = TRUE]
  ELSE [S EXCEPT !.children[pid].state = "term", !.children[pid].killed = TRUE]

NextPid(S) == Cardinality(DOMAIN S.children) + 1

\* child_process.spawn plus the registration in runningProxies.  ord is the
\* position of the key in the Map: Map.set keeps the position of a key that
\* is present and puts a new key last.
SpawnAndRegister(S, cfg, port, proxyType, isFallback) ==
  LET pid == NextPid(S) IN
  [S EXCEPT
     !.ok = @ /\ pid <= MaxSpawns,
     !.children = MapSet(@, pid,
        [sid |-> cfg.id, port |-> port, type |-> proxyType,
         cfg |-> cfg, state |-> "running", killed |-> FALSE,
         listeners |-> ~IsPersistent(cfg), code |-> "none"]),
     !.runningProxies = MapSet(@, cfg.id,
        [process |-> pid, port |-> port, config |-> cfg, restartCount |-> 0,
         healthy |-> FALSE, authError |-> FALSE, proxyTypeUsed |-> proxyType,
         fallbackUsed |-> isFallback,
         ord |-> IF cfg.id \in DOMAIN S.runningProxies
                 THEN S.runningProxies[cfg.id].ord ELSE pid]),
     !.log = Append(@, Ev("spawn", cfg.id, pid))]

\* ------------------------------------------------------------------ tasks

\* currentServers is a Map in insertion order: the sequence of its values.
CurIds(S) == { S.currentServers[i].id : i \in 1..Len(S.currentServers) }

CurKeys(S) == [i \in 1..Len(S.currentServers) |-> S.currentServers[i].id]

CurGet(S, id) ==
  S.currentServers[CHOOSE i \in 1..Len(S.currentServers) : S.currentServers[i].id = id]

CurSet(S, id, cfg) ==
  [S EXCEPT !.currentServers =
     IF id \in CurIds(S)
     THEN [i \in 1..Len(@) |-> IF @[i].id = id THEN cfg ELSE @[i]]
     ELSE Append(@, cfg)]

CurDel(S, id) ==
  [S EXCEPT !.currentServers = SelectSeq(@, LAMBDA x : x.id # id)]

RecTasks == { <<"rec", k>> : k \in 1..MaxReloads }

\* start(): the first loadAndStartProxies, awaited before the watcher, the
\* health monitor and the management API are started
BootTask == <<"boot", 0>>

ApiTask == <<"api", 0>>

MonTask == <<"mon", 0>>

ExitTask(pid) == <<"exit", pid>>

Top(S, t) == Head(S.tasks[t])

SetTop(S, t, f) == [S EXCEPT !.tasks[t] = <<f>> \o Tail(@)]

Push(S, t, f) ==
  [S EXCEPT !.tasks = MapSet(@, t, <<f>> \o (IF t \in DOMAIN S.tasks THEN S.tasks[t] ELSE <<>>))]

Pop(S, t) == [S EXCEPT !.tasks[t] = Tail(@)]

EndTask(S, t) == [S EXCEPT !.tasks = MapDel(@, t)]


\* ------------------------------------------------- ProxyManager: procedures

RECURSIVE Resume(_, _, _)
RECURSIVE startIter(_, _)
RECURSIVE spawnDone(_, _, _)
RECURSIVE rcRemoveLoop(_, _)
RECURSIVE rcStartLoop(_, _)
RECURSIVE monAlerts(_, _, _)
RECURSIVE monNext(_, _)

\* stopProxy up to its sleep(3000)
stopProxy(S, t, serverId) ==
  IF serverId \notin DOMAIN S.runningProxies THEN Resume(S, t, TRUE)
  ELSE Push(Note(kill(S, S.runningProxies[serverId].process), "stop", serverId), t,
            [pc |-> "st_wait", sid |-> serverId,
             proc |-> S.runningProxies[serverId].process, timer |-> StopGrace])

stopFinishForgetting(S, t) ==
  LET f == Top(S, t)
      S1 == IF ~S.children[f.proc].killed THEN kill(S, f.proc) ELSE S
      S2 == [S1 EXCEPT !.runningProxies = MapDel(@, f.sid),
                       !.fallbackAttempts = MapDel(@, f.sid)]
  IN Resume(Pop(NoteN(deallocatePort(S2, f.sid), "stopped", f.sid, f.proc), t),
            t, TRUE)

\* stopProxy after the sleep: SIGKILL unless process.killed, then the clean-up
stopFinish(S, t) ==
  LET f == Top(S, t)
      S1 == IF ~S.children[f.proc].killed THEN kill(S, f.proc) ELSE S
      S2 == [S1 EXCEPT !.runningProxies = MapDel(@, f.sid)]
  IN Resume(Pop(NoteN(deallocatePort(S2, f.sid), "stopped", f.sid, f.proc), t),
            t, TRUE)

\* startProxy from its entry to the first spawnProxy
startProxy(S, t, cfg) ==
  LET id == cfg.id
      info0 == InfoOf(S, id)
      info1 == IF info0.stale
               THEN [info0 EXCEPT !.attempts = {}, !.totalAttempts = 0]
               ELSE info0
      Sr == NoteN(S, "start", id, info0.totalAttempts)
      S1 == IF id \in DOMAIN S.fallbackAttempts
            THEN [Sr EXCEPT !.fallbackAttempts[id] = info1] ELSE Sr
      port == allocatedPortOf(S1, id)
      S2 == allocatePort(S1, id)
      order == TryOrder(cfg, info1)
  IN
  IF ~IsPersistent(cfg) /\ ~cfg.needsProxy THEN Resume(S, t, TRUE)
  ELSE IF id \in DOMAIN S.runningProxies THEN Resume(S, t, TRUE)
  ELSE IF RetryLimitReached(info0) THEN Resume(Note(Sr, "refused", id), t, FALSE)
  ELSE IF port = NoPort THEN Resume(S2, t, FALSE)
  ELSE IF order = <<>> THEN Resume(Note(S2, "untried", id), t, FALSE)
  ELSE startIter(Push(S2, t, [pc |-> "sp_iter", cfg |-> cfg, port |-> port,
                              order |-> order, i |-> 1, fb |-> FALSE]), t)

\* One iteration of the try-order loop, up to spawnProxy
startIter(S, t) ==
  LET f == Top(S, t)
      id == f.cfg.id
      proxyType == f.order[f.i]
      info == InfoOf(S, id)
      isFallbackAttempt == f.i > 1 \/ info.totalAttempts > 0
      S1 == [S EXCEPT !.fallbackAttempts = MapSet(@, id, TrackAttempt(info, proxyType))]
      S2 == SetTop(S1, t, [pc |-> "sp_spawn", cfg |-> f.cfg, port |-> f.port,
                           order |-> f.order, i |-> f.i, fb |-> isFallbackAttempt,
                           timer |-> SpawnDeadline])
      S3 == SetTop(S1, t, [f EXCEPT !.pc = "sp_spawn", !.fb = isFallbackAttempt])
  IN IF SpawnSuspends(S, f.cfg) THEN S2
     ELSE spawnDone(S3, t, SpawnOutcome(f.cfg, proxyType))

\* startProxy from the return of spawnProxy to the warm-up sleep; proc is
\* the local proxyProcess
spawnDone(S, t, outcome) ==
  LET f == Top(S, t)
      id == f.cfg.id
  IN
  IF outcome = "throw" THEN Resume(Pop(S, t), t, FALSE)
  ELSE IF outcome = "null"
  THEN IF f.i < Len(f.order)
       THEN startIter(SetTop(S, t, [f EXCEPT !.i = f.i + 1]), t)
       ELSE Resume(Pop(deallocatePort(S, id), t), t, FALSE)
  ELSE SetTop(SpawnAndRegister(S, f.cfg, f.port, f.order[f.i], f.fb), t,
              [pc |-> "sp_warm", cfg |-> f.cfg, port |-> f.port,
               order |-> f.order, i |-> f.i, fb |-> f.fb,
               proc |-> NextPid(S), timer |-> initDelay(f.cfg)])

\* startProxy from the result of healthCheck on
afterProbe(S, t, outcome) ==
  LET f == Top(S, t)
      id == f.cfg.id
      has == id \in DOMAIN S.runningProxies
      Sa == recordError(S, id, "auth", FALSE)
      Sh == recordError(S, id, "health", TRUE)
  IN
  IF outcome = "ok"
  THEN IF ~has THEN Resume(Pop(S, t), t, FALSE)
       ELSE Resume(Pop(clearServerError(
              [S EXCEPT !.runningProxies[id].healthy = TRUE], id), t), t, TRUE)
  ELSE IF outcome = "auth"
  THEN IF ~has THEN Resume(Pop(Sa, t), t, FALSE)
       ELSE Resume(Pop([Sa EXCEPT !.runningProxies[id].healthy = FALSE,
                                  !.runningProxies[id].authError = TRUE], t), t, TRUE)
  ELSE IF f.cfg.hasProxyType \/ f.i = Len(f.order)
  THEN Resume(Pop(Sh, t), t, TRUE)
  ELSE stopProxy(SetTop(Sh, t, [f EXCEPT !.pc = "sp_fbstop"]), t, id)

\* startProxy after the warm-up sleep: healthCheck answers unhealthy at once
\* when the registry has no entry, else it probes the port of the entry
warmDone(S, t) ==
  LET f == Top(S, t)
      id == f.cfg.id
  IN IF id \notin DOMAIN S.runningProxies THEN afterProbe(S, t, "fail")
     ELSE SetTop(S, t, [pc |-> "sp_probe", cfg |-> f.cfg, port |-> f.port,
                        order |-> f.order, i |-> f.i, fb |-> f.fb,
                        proc |-> f.proc,
                        probed |-> S.runningProxies[id].port])

\* startProxy after the port reuse delay: reallocate, next candidate
coolDone(S, t) ==
  LET f == Top(S, t)
      id == f.cfg.id
      port == allocatedPortOf(S, id)
      S1 == allocatePort(S, id)
  IN IF port = NoPort THEN Resume(Pop(S1, t), t, FALSE)
     ELSE startIter(SetTop(S1, t, [pc |-> "sp_iter", cfg |-> f.cfg, port |-> port,
                                   order |-> f.order, i |-> f.i + 1, fb |-> f.fb]), t)

\* restartProxy up to stopProxy
restartProxy(S, t, serverId) ==
  IF serverId \notin DOMAIN S.runningProxies THEN Resume(S, t, FALSE)
  ELSE stopProxy(Push(Note(S, "restart", serverId), t,
                      [pc |-> "rs_stop", sid |-> serverId,
                       cfg |-> S.runningProxies[serverId].config]), t, serverId)

\* The health history of checkAlerts
Unhealthy(h) == { i \in 1..Len(h) : ~h[i].healthy }

getConsecutiveFailures(h) ==
  IF Unhealthy(h) = 1..Len(h) THEN Len(h)
  ELSE Len(h) - (CHOOSE i \in 1..Len(h) : h[i].healthy /\ \A j \in (i+1)..Len(h) : ~h[j].healthy)

recentChecks(h) == IF Len(h) > RecentWindow THEN SubSeq(h, Len(h) - RecentWindow + 1, Len(h)) ELSE h

\* Math.round(failureRate * 100), for at most ten checks
failureRatePct(h) ==
  (2 * 100 * Cardinality(Unhealthy(recentChecks(h))) + Len(recentChecks(h)))
    \div (2 * Len(recentChecks(h)))

\* Faulty variant: the remediation does not look at authError
latestAuthErrorIgnored(S, serverId) == FALSE

latestAuthError(S, serverId) ==
  /\ serverId \in DOMAIN S.healthHistory
  /\ S.healthHistory[serverId] # <<>>
  /\ S.healthHistory[serverId][Len(S.healthHistory[serverId])].authError

\* Faulty variant: every alert is remediated, without the thresholds of
\* attemptRemediation
RemediatesOnAlert(S, serverId, alertType, detail) ==
  ~latestAuthError(S, serverId)

\* attemptRemediation
Remediates(S, serverId, alertType, detail) ==
  /\ ~latestAuthError(S, serverId)
  /\ \/ alertType = "consecutive_failures" /\ detail >= RemedyConsecutive
     \/ alertType = "high_failure_rate" /\ detail >= RemedyFailureRate


\* ------------------------------------------------ MCPProxyManagerApp: reload

\* getProxyStatuses: the registry in Map order, as (serverId, port) pairs
RECURSIVE SortByOrd(_, _)
SortByOrd(S, ids) ==
  IF ids = {} THEN <<>>
  ELSE LET m == CHOOSE x \in ids :
                  \A y \in ids : S.runningProxies[x].ord <= S.runningProxies[y].ord
       IN <<[sid |-> m, port |-> S.runningProxies[m].port]>> \o SortByOrd(S, ids \ {m})

getProxyStatuses(S) == SortByOrd(S, DOMAIN S.runningProxies)

\* reconcileProxies: the removal loop, from its k-th element
rcRemoveLoop(S, t) ==
  LET f == Top(S, t) IN
  IF f.k > Len(f.rem)
  THEN IF Len(f.rem) > MassRemovalThreshold
       THEN SetTop(S, t, [pc |-> "rc_extra", desired |-> f.desired,
                          timer |-> MassRemovalDelay])
       ELSE rcStartLoop(SetTop(S, t, [pc |-> "rc_start", desired |-> f.desired,
                                      j |-> 1]), t)
  ELSE stopProxy(SetTop(S, t, [f EXCEPT !.pc = "rc_stopping"]), t, f.rem[f.k])

\* reconcileProxies: the start/update loop, from its j-th element
rcStartLoop(S, t) ==
  LET f == Top(S, t)
      enhancedServer == Enhance(f.desired[f.j])
      id == enhancedServer.id
  IN
  IF f.j > Len(f.desired) THEN EndTask(Note(S, "reconciled", "-"), t)
  ELSE IF id \notin CurIds(S)
  THEN startProxy(SetTop(S, t, [f EXCEPT !.pc = "rc_starting"]), t, enhancedServer)
  ELSE IF CurGet(S, id) # enhancedServer
  THEN stopProxy(SetTop(S, t, [f EXCEPT !.pc = "rc_upd_stop"]), t, id)
  ELSE rcStartLoop(SetTop(S, t, [f EXCEPT !.j = f.j + 1]), t)

reconcileProxies(S, t, desiredServers) ==
  LET keys == CurKeys(S)
      serversToRemove == SelectSeq(keys, LAMBDA id : id \notin DocIds(desiredServers))
  IN
  IF desiredServers = <<>> /\ Len(keys) > MassShutdownGuard
  THEN EndTask(S, t)
  ELSE rcRemoveLoop(SetTop(S, t, [pc |-> "rc_remove", desired |-> desiredServers,
                                  rem |-> serversToRemove, k |-> 1]), t)

\* Faulty variant of the reload: neither the retry of an empty read nor the
\* mass-shutdown check, every current server that is not desired is removed
loadAndStartUnchecked(S, t, servers) ==
  rcRemoveLoop(SetTop(IF servers = <<>> THEN Note(S, "emptyread", "-") ELSE S, t,
                      [pc |-> "rc_remove", desired |-> servers,
                       rem |-> SelectSeq(CurKeys(S), LAMBDA id : id \notin DocIds(servers)),
                       k |-> 1]), t)

\* loadAndStartProxies from the result of a read of the configuration file
loadAndStartProxies(S, t, servers) ==
  LET f == Top(S, t) IN
  IF servers = <<>> /\ ~f.retry /\ S.currentServers # <<>>
  THEN SetTop(Note(S, "emptyread", "-"), t, [pc |-> "ld_retry", timer |-> RetryReadDelay])
  ELSE IF servers = <<>> /\ f.retry
  THEN EndTask(Note(S, "emptyread", "-"), t)
  ELSE reconcileProxies(IF servers = <<>> THEN Note(S, "emptyread", "-") ELSE S, t, servers)

\* ------------------------------------------------------------ HealthMonitor

\* storeHealthHistory
storeHealthHistory(S, serverId, healthStatus) ==
  LET h == (IF serverId \in DOMAIN S.healthHistory THEN S.healthHistory[serverId]
            ELSE <<>>) \o <<healthStatus>>
  IN [S EXCEPT !.healthHistory =
        MapSet(@, serverId, IF Len(h) > maxHistorySize THEN Tail(h) ELSE h)]

\* performHealthChecks: the loop over the snapshot, from its k-th element
monNext(S, t) ==
  LET f == Top(S, t) IN
  IF f.k > Len(f.list) THEN EndTask(S, t)
  ELSE SetTop(S, t, [pc |-> "mn_probe", list |-> f.list, k |-> f.k])

\* checkAlerts: stage 1 is the consecutive-failures alert, stage 2 the
\* failure-rate alert; both were computed when the check was stored
monAlerts(S, t, stage) ==
  LET f == Top(S, t)
      sid == f.list[f.k].sid
  IN
  IF stage = 1
  THEN IF f.cons >= AlertConsecutive /\ Remediates(S, sid, "consecutive_failures", f.cons)
       THEN restartProxy(SetTop(Note(S, "remedy", sid), t, [f EXCEPT !.pc = "mn_rem1"]), t, sid)
       ELSE monAlerts(S, t, 2)
  ELSE IF stage = 2
  THEN IF f.rate >= AlertFailureRate /\ Remediates(S, sid, "high_failure_rate", f.rate)
       THEN restartProxy(SetTop(Note(S, "remedy", sid), t, [f EXCEPT !.pc = "mn_rem2"]), t, sid)
       ELSE monAlerts(S, t, 3)
  ELSE monNext(SetTop(S, t, [pc |-> "mn_next", list |-> f.list, k |-> f.k + 1]), t)

\* checkProxyHealth from the end of the probe on
checkProxyHealth(S, t, outcome) ==
  LET f == Top(S, t)
      sid == f.list[f.k].sid
      healthStatus == [healthy |-> outcome \in {"ok", "ok401"},
                       authError |-> outcome \in {"auth", "ok401"}]
      S1 == storeHealthHistory(S, sid, healthStatus)
      h == S1.healthHistory[sid]
  IN monAlerts(SetTop(S1, t, [pc |-> "mn_alerts", list |-> f.list, k |-> f.k,
                              cons |-> getConsecutiveFailures(h),
                              rate |-> failureRatePct(h)]), t, 1)

\* ------------------------------------------------------- continuations

\* The caller of a finished stopProxy / startProxy / restartProxy goes on
Resume(S, t, val) ==
  LET f == Top(S, t) IN
  CASE f.pc = "sp_fbstop" ->
         SetTop(S, t, [pc |-> "sp_cool", cfg |-> f.cfg, port |-> f.port,
                       order |-> f.order, i |-> f.i, fb |-> f.fb,
                       proc |-> f.proc, timer |-> portReuseDelay])
    [] f.pc = "rs_stop" ->
         SetTop(S, t, [pc |-> "rs_wait", sid |-> f.sid, cfg |-> f.cfg,
                       timer |-> RestartPause])
    [] f.pc = "rs_start" ->
         Resume(Pop(IF val /\ f.sid \in DOMAIN S.runningProxies
                    THEN [S EXCEPT !.runningProxies[f.sid].restartCount = @ + 1]
                    ELSE S, t), t, val)
    [] f.pc = "rc_stopping" ->
         LET S1 == CurDel(S, f.rem[f.k]) IN
         IF Len(f.rem) > 1
         THEN SetTop(S1, t, [pc |-> "rc_gap", desired |-> f.desired, rem |-> f.rem,
                             k |-> f.k + 1, timer |-> RemovalGap])
         ELSE rcRemoveLoop(SetTop(S1, t, [f EXCEPT !.pc = "rc_remove", !.k = f.k + 1]), t)
    [] f.pc = "rc_upd_stop" ->
         startProxy(SetTop(S, t, [f EXCEPT !.pc = "rc_starting"]), t,
                    Enhance(f.desired[f.j]))
    [] f.pc = "rc_starting" ->
         rcStartLoop(SetTop(IF val THEN CurSet(S, f.desired[f.j].id, Enhance(f.desired[f.j]))
                            ELSE S, t, [f EXCEPT !.pc = "rc_start", !.j = f.j + 1]), t)
    [] f.pc = "ex_start" -> EndTask(S, t)
    [] f.pc = "api_restart" -> EndTask(S, t)
    [] f.pc = "api_stop" -> EndTask(IF val THEN CurDel(S, f.sid) ELSE S, t)
    [] f.pc = "mn_rem1" -> monAlerts(S, t, 2)
    [] f.pc = "mn_rem2" -> monAlerts(S, t, 3)


\* ---------------------------------------------------------------- actions

Init ==
  /\ allocatedPorts = {}
  /\ serverPorts = EmptyMap
  /\ runningProxies = EmptyMap
  /\ fallbackAttempts = EmptyMap
  /\ serverErrors = EmptyMap
  /\ currentServers = <<>>
  /\ healthHistory = EmptyMap
  /\ children = EmptyMap
  /\ tasks = [t \in {BootTask} |-> <<[pc |-> "ld_read", retry |-> FALSE]>>]
  /\ configFile \in Docs
  /\ cacheValidationCache = {}
  /\ fault \in {"none", "bridgeDir", "npmCache", "sigterm"}
  /\ events = 0
  /\ log = <<>>
  /\ env = EnvFresh(TRUE, TRUE)
  /\ envRet = NoCall
  /\ unified = UnifiedFresh
  /\ multi = MultiFresh

Waiting(t, pc) == t \in DOMAIN tasks /\ Head(tasks[t]).pc = pc

Expired(t, pc) == Waiting(t, pc) /\ Head(tasks[t]).timer = 0

Timed(t) == "timer" \in DOMAIN Head(tasks[t])

Env == UNCHANGED <<configFile, fault, events>>

\* One more of the bounded number of external events
Counted ==
  /\ events < MaxEvents
  /\ events' = events + 1

\* start() has started the config watcher, the health monitor and the
\* management API: the first load is over
Started == BootTask \notin DOMAIN tasks

\* An event of the watcher, the monitor's timer or the API
External == Started /\ Counted

\* The time to the next expiry of a timer
NextExpiry ==
  LET ds == { Head(tasks[t]).timer : t \in { u \in DOMAIN tasks : Timed(u) } }
  IN CHOOSE d \in ds : \A e \in ds : d <= e

\* What takes no time on the scale of the timers: a read of the
\* configuration file, an HTTP probe, the end of a child that was signalled
Prompt ==
  \/ \E t \in DOMAIN tasks : Head(tasks[t]).pc \in {"ld_read", "sp_probe", "mn_probe"}
  \/ \E pid \in DOMAIN children : children[pid].state = "term"

\* Time passes up to the next expiry of a timer; a timer that has expired
\* fires before any more time passes
Tick ==
  /\ \E t \in DOMAIN tasks : Timed(t)
  /\ \A t \in DOMAIN tasks : Timed(t) => Head(tasks[t]).timer > 0
  /\ ~Prompt
  /\ tasks' = [t \in DOMAIN tasks |->
                 IF Timed(t)
                 THEN <<[Head(tasks[t]) EXCEPT !.timer = @ - NextExpiry]>> \o Tail(tasks[t])
                 ELSE tasks[t]]
  /\ log' = <<>>
  /\ UNCHANGED <<allocatedPorts, serverPorts, runningProxies, fallbackAttempts,
                 serverErrors, currentServers, healthHistory, children,
                 cacheValidationCache, env, envRet, unified, multi>>
  /\ Env

StopGraceElapsed(t) ==
  /\ Expired(t, "st_wait")
  /\ Commit(stopFinish(Cur, t))
  /\ Env

WarmupElapsed(t) ==
  /\ Expired(t, "sp_warm")
  /\ Commit(warmDone(Cur, t))
  /\ Env

CooldownElapsed(t) ==
  /\ Expired(t, "sp_cool")
  /\ Commit(coolDone(Cur, t))
  /\ Env

RestartPauseElapsed(t) ==
  /\ Expired(t, "rs_wait")
  /\ Commit(startProxy(SetTop(Cur, t, [pc |-> "rs_start", sid |-> Head(tasks[t]).sid]),
                       t, Head(tasks[t]).cfg))
  /\ Env

ExitDelayElapsed(t) ==
  /\ Expired(t, "ex_wait")
  /\ Commit(startProxy(SetTop(Cur, t, [pc |-> "ex_start"]), t, Head(tasks[t]).cfg))
  /\ Env

RetryReadElapsed(t) ==
  /\ Expired(t, "ld_retry")
  /\ Commit(SetTop(Cur, t, [pc |-> "ld_read", retry |-> TRUE]))
  /\ Env

RemovalGapElapsed(t) ==
  /\ \/ Expired(t, "rc_gap")
     \/ Expired(t, "rc_extra")
  /\ Commit(IF Head(tasks[t]).pc = "rc_gap"
            THEN rcRemoveLoop(SetTop(Cur, t, [pc |-> "rc_remove",
                                desired |-> Head(tasks[t]).desired,
                                rem |-> Head(tasks[t]).rem, k |-> Head(tasks[t]).k]), t)
            ELSE rcStartLoop(SetTop(Cur, t, [pc |-> "rc_start",
                                desired |-> Head(tasks[t]).desired, j |-> 1]), t))
  /\ Env

\* The configuration file has been read
ReadComplete(t) ==
  /\ Waiting(t, "ld_read")
  /\ Commit(loadAndStartProxies(Cur, t, getMCPServers(configFile)))
  /\ Env

\* spawnProxy returns after the npm cache validation
SpawnComplete(t) ==
  /\ Waiting(t, "sp_spawn")
  /\ Commit(spawnDone(validated(Cur, Head(tasks[t]).cfg), t,
                       SpawnOutcome(Head(tasks[t]).cfg,
                                    Head(tasks[t]).order[Head(tasks[t]).i])))
  /\ Env

\* Only a child that is alive answers on its port
PortAnswers(port) ==
  \E pid \in DOMAIN children :
     children[pid].port = port /\ children[pid].state # "exited"

\* healthCheck of startProxy returns
ProbeComplete(t, outcome) ==
  /\ Waiting(t, "sp_probe")
  /\ outcome # "fail" => PortAnswers(Head(tasks[t]).probed)
  /\ Commit(afterProbe(IF outcome = "auth"
                       THEN Note(Cur, "probe401", Head(tasks[t]).cfg.id) ELSE Cur,
                       t, outcome))
  /\ Env

\* The probe of checkProxyHealth returns
MonProbeComplete(t, outcome) ==
  /\ Waiting(t, "mn_probe")
  /\ outcome # "fail" => PortAnswers(Head(tasks[t]).list[Head(tasks[t]).k].port)
  /\ Commit(checkProxyHealth(
              IF outcome \in {"auth", "ok401"}
              THEN Note(Cur, "mon401", Head(tasks[t]).list[Head(tasks[t]).k].sid)
              ELSE Cur, t, outcome))
  /\ Env

\* The exit listener of spawnProxy followed by handleProcessExit; code is
\* "0", "1" or, for a child ended by a signal, "null"
exitListener(S, pid, code) ==
  LET c == S.children[pid]
      id == c.sid
      S1 == [S EXCEPT !.children[pid].state = "exited", !.children[pid].code = code]
      isError == code # "null" /\ code # "0"
      S2 == IF isError /\ (id \notin DOMAIN S1.serverErrors
                           \/ S1.serverErrors[id].errorType = "health"
                           \/ S1.serverErrors[id].healthMsg)
            THEN recordError(S1, id, "runtime", FALSE) ELSE S1
  IN IF c.listeners THEN S2 ELSE S1

handleProcessExit(S, pid, code) ==
  LET id == S.children[pid].sid
      proxyInfo == S.runningProxies[id]
      S1 == deallocatePort([S EXCEPT !.runningProxies = MapDel(@, id)], id)
      totalAttempts == IF id \in DOMAIN S.fallbackAttempts
                       THEN S.fallbackAttempts[id].totalAttempts ELSE 0
  IN
  IF ~S.children[pid].listeners \/ id \notin DOMAIN S.runningProxies THEN S
  ELSE IF code # "0" /\ proxyInfo.restartCount < RestartCap /\ totalAttempts < maxRetryAttempts
  THEN Push(Note(S1, "autorestart", id), ExitTask(pid),
            [pc |-> "ex_wait", cfg |-> proxyInfo.config, timer |-> ExitRestartDelay])
  ELSE S1

\* A running child exits by itself
ChildExit(pid, code) ==
  /\ pid \in DOMAIN children
  /\ children[pid].state = "running"
  /\ Counted
  /\ Commit(handleProcessExit(exitListener(Cur, pid, code), pid, code))
  /\ UNCHANGED <<configFile, fault>>

\* A child that was sent SIGTERM ends: by the signal, or it exits with 0
TermExit(pid, code) ==
  /\ pid \in DOMAIN children
  /\ children[pid].state = "term"
  /\ Commit(handleProcessExit(exitListener(Cur, pid, code), pid, code))
  /\ Env

\* The first reload slot that is not in use
FreeSlot(t) ==
  /\ t \notin DOMAIN tasks
  /\ \A u \in RecTasks : u[2] < t[2] => u \in DOMAIN tasks

\* The configuration file is rewritten; the watcher calls loadAndStartProxies
ConfigChange(doc, t) ==
  /\ doc # configFile
  /\ FreeSlot(t)
  /\ External
  /\ configFile' = doc
  /\ Commit(Push(Cur, t, [pc |-> "ld_read", retry |-> FALSE]))
  /\ UNCHANGED fault

\* POST /config/reload
handleReloadConfig(t) ==
  /\ FreeSlot(t)
  /\ External
  /\ Commit(Push(Cur, t, [pc |-> "ld_read", retry |-> FALSE]))
  /\ UNCHANGED <<configFile, fault>>

\* POST /servers/:id/restart
handleRestartServer(serverId) ==
  /\ serverId \in CurIds(Cur)
  /\ ApiTask \notin DOMAIN tasks
  /\ External
  /\ Commit(restartProxy(Push(Cur, ApiTask,
                              [pc |-> "api_restart"]), ApiTask, serverId))
  /\ UNCHANGED <<configFile, fault>>

\* POST /servers/:id/stop
handleStopServer(serverId) ==
  /\ serverId \in CurIds(Cur)
  /\ ApiTask \notin DOMAIN tasks
  /\ External
  /\ Commit(stopProxy(Push(Cur, ApiTask,
                           [pc |-> "api_stop", sid |-> serverId]), ApiTask, serverId))
  /\ UNCHANGED <<configFile, fault>>

\* POST /servers/:id/start: getMCPServers() is not awaited, servers.find is
\* not a function and the handler throws before it reaches startProxy
handleStartServer(serverId) ==
  /\ External
  /\ Commit(Cur)
  /\ UNCHANGED <<configFile, fault>>

\* The cron job of the health monitor fires
performHealthChecks ==
  /\ MonTask \notin DOMAIN tasks
  /\ External
  /\ Commit(monNext(Push(Cur, MonTask,
                         [pc |-> "mn_next", list |-> getProxyStatuses(Cur), k |-> 1]),
                    MonTask))
  /\ UNCHANGED <<configFile, fault>>

\* More than 30 minutes pass while nothing is in progress: every
\* lastAttempt is now older than the reset window, every validation result
\* older than 5 minutes
LongIdle ==
  /\ DOMAIN tasks = {}
  /\ \E id \in DOMAIN fallbackAttempts : ~fallbackAttempts[id].stale
  /\ UNCHANGED events
  /\ Commit([Cur EXCEPT !.fallbackAttempts =
                             [id \in DOMAIN @ |-> [@[id] EXCEPT !.stale = TRUE]],
                         !.cacheValidationCache = {}])
  /\ UNCHANGED <<configFile, fault>>

Next ==
  \/ Tick
  \/ \E t \in DOMAIN tasks : StopGraceElapsed(t)
  \/ \E t \in DOMAIN tasks : WarmupElapsed(t)
  \/ \E t \in DOMAIN tasks : CooldownElapsed(t)
  \/ \E t \in DOMAIN tasks : RestartPauseElapsed(t)
  \/ \E t \in DOMAIN tasks : ExitDelayElapsed(t)
  \/ \E t \in DOMAIN tasks : RetryReadElapsed(t)
  \/ \E t \in DOMAIN tasks : RemovalGapElapsed(t)
  \/ \E t \in DOMAIN tasks : ReadComplete(t)
  \/ \E t \in DOMAIN tasks : SpawnComplete(t)
  \/ \E t \in DOMAIN tasks, outcome \in {"ok", "auth", "fail"} : ProbeComplete(t, outcome)
  \/ \E t \in DOMAIN tasks, outcome \in {"ok", "ok401", "auth", "fail"} :
       MonProbeComplete(t, outcome)
  \/ \E pid \in DOMAIN children, code \in {"0", "1"} : ChildExit(pid, code)
  \/ \E pid \in DOMAIN children, code \in {"null", "0"} : TermExit(pid, code)
  \/ \E doc \in Docs, t \in RecTasks : ConfigChange(doc, t)
  \/ \E t \in RecTasks : handleReloadConfig(t)
  \/ \E serverId \in Servers : handleRestartServer(serverId)
  \/ \E serverId \in Servers : handleStopServer(serverId)
  \/ \E serverId \in Servers : handleStartServer(serverId)
  \/ performHealthChecks
  \/ LongIdle

Spec == Init /\ [][Next]_vars

\* ------------------------------------------- the PortManager on its own

\* The ids the port pool is asked for: one more than it has ports
PortClients == Servers \cup {"d"}

\* A PortManager after its constructor; nothing else of the supervisor runs
PortInit ==
  /\ allocatedPorts = {}
  /\ serverPorts = EmptyMap
  /\ runningProxies = EmptyMap
  /\ fallbackAttempts = EmptyMap
  /\ serverErrors = EmptyMap
  /\ currentServers = <<>>
  /\ healthHistory = EmptyMap
  /\ children = EmptyMap
  /\ tasks = EmptyMap
  /\ configFile = <<>>
  /\ cacheValidationCache = {}
  /\ fault = "none"
  /\ events = 0
  /\ log = <<>>
  /\ env = EnvFresh(TRUE, TRUE)
  /\ envRet = NoCall
  /\ unified = UnifiedFresh
  /\ multi = MultiFresh

\* A call allocatePort(serverId): the log holds the port the id held at the
\* call (NoPort for none) and the port returned (NoPort for null)
PortAllocate(serverId) ==
  /\ Commit(NoteN(NoteN(allocatePort(Cur, serverId), "allocatePort", serverId,
                        IF serverId \in DOMAIN serverPorts
                        THEN serverPorts[serverId] ELSE NoPort),
                  "returned", serverId, allocatedPortOf(Cur, serverId)))
  /\ Env

\* A call deallocatePort(serverId)
PortDeallocate(serverId) ==
  /\ Commit(Note(deallocatePort(Cur, serverId), "deallocatePort", serverId))
  /\ Env

PortNext ==
  \/ \E serverId \in PortClients : PortAllocate(serverId)
  \/ \E serverId \in PortClients : PortDeallocate(serverId)

PortSpec == PortInit /\ [][PortNext]_vars

\* ------------------------------------- the EnvironmentManager on its own

\* The supervisor does nothing in the specifications of the single classes
Dormant ==
  /\ allocatedPorts = {}
  /\ serverPorts = EmptyMap
  /\ runningProxies = EmptyMap
  /\ fallbackAttempts = EmptyMap
  /\ serverErrors = EmptyMap
  /\ currentServers = <<>>
  /\ healthHistory = EmptyMap
  /\ children = EmptyMap
  /\ tasks = EmptyMap
  /\ configFile = <<>>
  /\ cacheValidationCache = {}
  /\ fault = "none"
  /\ events = 0
  /\ log = <<>>

Asleep ==
  UNCHANGED <<allocatedPorts, serverPorts, runningProxies, fallbackAttempts,
              serverErrors, currentServers, healthHistory, children, tasks,
              cacheValidationCache, configFile, fault, events, log,
              unified, multi>>

EnvInit ==
  /\ Dormant
  /\ \E gcm \in BOOLEAN, keyOnDisk \in BOOLEAN : env = EnvFresh(gcm, keyOnDisk)
  /\ envRet = NoCall
  /\ unified = UnifiedFresh
  /\ multi = MultiFresh

\* A call may begin: no save is between its write and its rename, and the
\* bound on the number of calls is not reached
EnvReady == ~env.pend.active /\ env.ops < MaxEnvOps

EnvLoad(serverId) ==
  LET r == [m \in StorageModes |->
              loadEnvironmentVariables(env, m, env.store[m], serverId)]
  IN /\ EnvReady
     /\ env' = [env EXCEPT !.ops = @ + 1,
                           !.store = [m \in StorageModes |-> r[m].st]]
     /\ envRet' = [op |-> "load", serverId |-> serverId, arg |-> EmptyMap,
                   out |-> [m \in StorageModes |-> r[m].out]]
     /\ Asleep

EnvSummary(serverId) ==
  /\ EnvReady
  /\ env' = [env EXCEPT !.ops = @ + 1]
  /\ envRet' = [op |-> "summary", serverId |-> serverId, arg |-> EmptyMap,
                out |-> [m \in StorageModes |->
                           getEnvironmentSummary(env, m, env.store[m], serverId)]]
  /\ Asleep

EnvDelete(serverId) ==
  /\ EnvReady
  /\ env' = [env EXCEPT !.ops = @ + 1,
               !.store = [m \in StorageModes |->
                            deleteEnvironmentVariables(env, m, env.store[m], serverId)],
               !.saved = [m \in StorageModes |->
                            IF m = "memory" THEN @[m] ELSE MapDel(@[m], serverId)]]
  /\ envRet' = [op |-> "delete", serverId |-> serverId, arg |-> EmptyMap,
                out |-> [m \in StorageModes |-> TRUE]]
  /\ Asleep

\* saveEnvironmentVariables up to the middle of writeFileSync(tempPath):
\* without a directory the call is over at once; with one it is over at
\* once if a value cannot be encrypted
EnvSaveBegin(serverId, variables) ==
  LET E == [env EXCEPT !.clock = @ + 1, !.ops = @ + 1]
      fails == saveFails(E, "persistent", variables)
      st(m) == IF m = "memory" THEN saveToMemory(E.store[m], serverId, variables)
               ELSE IF fails THEN E.store[m]
               ELSE writeFileSync(E.store[m],
                                  tempPath(getEnvFilePath(m, serverId)), Partial)
  IN /\ EnvReady
     /\ env' = [E EXCEPT !.store = [m \in StorageModes |-> st(m)],
                         !.pend = IF fails THEN [active |-> FALSE]
                                  ELSE [active |-> TRUE, written |-> FALSE,
                                        serverId |-> serverId,
                                        variables |-> variables]]
     /\ envRet' = [op |-> IF fails THEN "save" ELSE "saving",
                   serverId |-> serverId, arg |-> variables,
                   out |-> [m \in StorageModes |-> m = "memory" \/ ~fails]]
     /\ Asleep

\* writeFileSync(tempPath) has written the whole file
EnvSaveWritten ==
  LET p == env.pend
      st(m) == IF m = "memory" THEN env.store[m]
               ELSE writeFileSync(env.store[m],
                                  tempPath(getEnvFilePath(m, p.serverId)),
                                  Whole(envFileData(env, p.serverId, p.variables)))
  IN /\ env.pend.active
     /\ ~env.pend.written
     /\ env' = [env EXCEPT !.store = [m \in StorageModes |-> st(m)],
                           !.pend.written = TRUE]
     /\ UNCHANGED envRet
     /\ Asleep

\* renameSync(tempPath, envFilePath), the cache delete that follows, and
\* the return
EnvSaveRename ==
  LET p == env.pend
      st(m) == IF m = "memory" THEN env.store[m]
               ELSE [renameSync(env.store[m],
                                tempPath(getEnvFilePath(m, p.serverId)),
                                getEnvFilePath(m, p.serverId))
                       EXCEPT !.cache = MapDel(@, p.serverId)]
  IN /\ env.pend.active
     /\ env.pend.written
     /\ env' = [env EXCEPT
                  !.pend = [active |-> FALSE],
                  !.store = [m \in StorageModes |-> st(m)],
                  !.saved = [m \in StorageModes |->
                               IF m = "memory" THEN @[m]
                               ELSE MapSet(@[m], p.serverId,
                                           envFileData(env, p.serverId, p.variables))]]
     /\ envRet' = [envRet EXCEPT !.op = "save"]
     /\ Asleep

\* The process dies and is started again: the cache is gone, the files stay,
\* a master key that is not on disk is replaced by a new one
EnvCrash ==
  /\ env.ops < MaxEnvOps
  /\ env' = [env EXCEPT
               !.ops = @ + 1,
               !.pend = [active |-> FALSE],
               !.masterKey = IF env.keyOnDisk THEN @ ELSE @ + 1,
               !.store = [m \in StorageModes |-> [@[m] EXCEPT !.cache = EmptyMap]]]
  /\ envRet' = [NoCall EXCEPT !.op = "crash"]
  /\ Asleep

\* More than cacheTimeout passes: every cache entry is out of date
EnvCacheTimeout ==
  /\ EnvReady
  /\ \E m \in StorageModes : \E id \in DOMAIN env.store[m].cache :
        env.store[m].cache[id].fresh
  /\ env' = [env EXCEPT
               !.ops = @ + 1,
               !.store = [m \in StorageModes |->
                  [@[m] EXCEPT !.cache =
                     [id \in DOMAIN @ |-> [@[id] EXCEPT !.fresh = FALSE]]]]]
  /\ envRet' = [NoCall EXCEPT !.op = "wait"]
  /\ Asleep

EnvNext ==
  \/ \E serverId \in EnvIds : EnvLoad(serverId)
  \/ \E serverId \in EnvIds : EnvSummary(serverId)
  \/ \E serverId \in EnvIds : EnvDelete(serverId)
  \/ \E serverId \in EnvIds, variables \in EnvMaps : EnvSaveBegin(serverId, variables)
  \/ EnvSaveWritten
  \/ EnvSaveRename
  \/ EnvCrash
  \/ EnvCacheTimeout

EnvSpec == EnvInit /\ [][EnvNext]_vars

\* ------------------------------------------- the ConfigParser on its own

\* A field the JSON entry does not have
Absent == "absent"

\* The entries of mcpServers: each field absent or one of a few values, the
\* empty string among them
RawEntries ==
  [transport : {Absent, "sse", "streamable-http", "stdio"},
   url : {Absent, "", "http://h/sse"},
   command : {Absent, "", "npx"},
   needsProxy : {Absent, "true", "false"},
   proxyType : {Absent, "mcp-bridge"}]

\* JavaScript truthiness of a string field: there and not empty
truthy(v) == v # Absent /\ v # ""

\* Object.prototype.hasOwnProperty.call(config, key)
hasOwnProperty(config, key) == config[key] # Absent

\* parseMCPServer returns null
Skipped == [type |-> "null"]

\* ConfigParser.isValidCommand: false without a command, else true (an
\* unusual command is only warned about)
isValidCommand(serverConfig) == truthy(serverConfig.command)

parseCommandFirst(name, config) ==
  IF truthy(config.command)
  THEN [id |-> name, name |-> name, type |-> "stdio",
        command |-> config.command, transport |-> "stdio",
        needsProxy |-> config.needsProxy # "false"]
  ELSE IF truthy(config.url) /\ config.transport \in {"sse", "streamable-http"}
  THEN [id |-> name, name |-> name, type |-> config.transport,
        url |-> config.url, transport |-> config.transport, needsProxy |-> TRUE]
  ELSE Skipped

parseMCPServer(name, config) ==
  IF config.transport = "sse" /\ truthy(config.url)
  THEN [id |-> name, name |-> name, type |-> "sse", url |-> config.url,
        transport |-> "sse", needsProxy |-> TRUE]
  ELSE IF config.transport = "streamable-http" /\ truthy(config.url)
  THEN [id |-> name, name |-> name, type |-> "streamable-http",
        url |-> config.url, transport |-> "streamable-http",
        needsProxy |-> TRUE]
  ELSE IF truthy(config.command)
  THEN LET serverConfig ==
             [id |-> name, name |-> name, type |-> "stdio",
              command |-> config.command, transport |-> "stdio",
              needsProxy |-> config.needsProxy # "false"]
           withType ==
             IF hasOwnProperty(config, "proxyType")
             THEN [k \in DOMAIN serverConfig \cup {"proxyType"} |->
                     IF k = "proxyType" THEN config.proxyType
                     ELSE serverConfig[k]]
             ELSE serverConfig
       IN IF ~isValidCommand(withType) THEN Skipped ELSE withType
  ELSE Skipped

\* getMCPServers: the loop over Object.entries(config.mcpServers); an entry
\* is a pair <<serverName, serverConfig>>
RECURSIVE parseEntries(_)
parseEntries(mcpServers) ==
  IF mcpServers = <<>> THEN <<>>
  ELSE LET mcpServer == parseMCPServer(Head(mcpServers)[1], Head(mcpServers)[2])
           rest == parseEntries(Tail(mcpServers))
       IN IF mcpServer # Skipped THEN <<mcpServer>> \o rest ELSE rest

\* An entry that parses, to stand next to the entry under test
OtherEntry ==
  [transport |-> Absent, url |-> Absent, command |-> "npx",
   needsProxy |-> Absent, proxyType |-> Absent]

\* The mcpServers objects of the configuration file: one entry of any form,
\* alone, before or after another entry
RawDocs ==
  { <<<<"a", e>>>> : e \in RawEntries }
    \cup { <<<<"a", e>>, <<"b", OtherEntry>>>> : e \in RawEntries }
    \cup { <<<<"b", OtherEntry>>, <<"a", e>>>> : e \in RawEntries }

ParseInit ==
  /\ allocatedPorts = {}
  /\ serverPorts = EmptyMap
  /\ runningProxies = EmptyMap
  /\ fallbackAttempts = EmptyMap
  /\ serverErrors = EmptyMap
  /\ currentServers = <<>>
  /\ healthHistory = EmptyMap
  /\ children = EmptyMap
  /\ tasks = EmptyMap
  /\ configFile \in RawDocs
  /\ cacheValidationCache = {}
  /\ fault = "none"
  /\ events = 0
  /\ log = <<>>
  /\ env = EnvFresh(TRUE, TRUE)
  /\ envRet = NoCall
  /\ unified = UnifiedFresh
  /\ multi = MultiFresh

\* getMCPServers is called once on the file
ParseLoad ==
  /\ log = <<>>
  /\ currentServers' = parseEntries(configFile)
  /\ log' = <<Ev("getMCPServers", "-", Len(configFile))>>
  /\ UNCHANGED <<allocatedPorts, serverPorts, runningProxies, fallbackAttempts,
                 serverErrors, healthHistory, children, tasks,
                 cacheValidationCache, configFile, fault, events, env, envRet,
                 unified, multi>>

ParseNext == ParseLoad

ParseSpec == ParseInit /\ [][ParseNext]_vars

\* ------------------------------------ the UnifiedProxyManager on its own

\* Bound on the number of crashes of the unified child
MaxCrashes == 4

\* maxWait / checkInterval of waitForStartup
StartupPolls == 30

UnifiedStopGrace == 3

UnifiedRestartPause == 2

UnifiedRestartDelay == 5

UnifiedPollInterval == 1

UnifiedId == "unified-mcpo"

\* The manager and its PortManager as one value, threaded through a run
UCur ==
  [u |-> unified, allocatedPorts |-> allocatedPorts,
   serverPorts |-> serverPorts]

UCommit(X) ==
  /\ unified' = X.u
  /\ allocatedPorts' = X.allocatedPorts
  /\ serverPorts' = X.serverPorts
  /\ UNCHANGED <<runningProxies, fallbackAttempts, serverErrors,
                 currentServers, healthHistory, children, tasks,
                 cacheValidationCache, configFile, fault, events, log, env,
                 envRet, multi>>

UFrame(pc, timer, waited, boot, shut) ==
  [pc |-> pc, timer |-> timer, waited |-> waited, boot |-> boot,
   shut |-> shut]

USuspend(X, i, pc, timer, waited) ==
  [X EXCEPT !.u.calls[i] = UFrame(pc, timer, waited, @.boot, @.shut)]

UDrop(calls, i) ==
  [k \in 1..(Len(calls) - 1) |-> IF k < i THEN calls[k] ELSE calls[k + 1]]

\* process.exit: nothing of the application runs any more
processExit(X) == [X EXCEPT !.u.halted = TRUE, !.u.calls = <<>>]

\* cleanup: deallocatePort is handed the port number, and serverPorts is keyed
\* by server id, so its lookup finds nothing and the port stays allocated
unifiedCleanup(X) ==
  [X EXCEPT !.u.mcpoProcess = 0, !.u.isHealthy = FALSE,
            !.u.mcpoPort = NoPort]

\* ChildProcess.kill: a child that has exited has no handle, the signal is
\* not sent and killed stays as it is
unifiedKill(X, pid) ==
  IF X.u.procs[pid].state = "exited" THEN X
  ELSE [X EXCEPT !.u.procs[pid] = [state |-> "dying", killed |-> TRUE]]

\* A call of start returns ok.  The application exits when its own call
\* fails (index.js start, the catch of app.start); restart drops the result.
unifiedReturn(X, i, ok) ==
  IF X.u.calls[i].boot /\ ~ok THEN processExit(X)
  ELSE [X EXCEPT !.u.calls = UDrop(@, i)]

\* waitForStartup at the head of its loop, and checkHealth up to its request
waitForStartup(X, i, waited) ==
  IF waited >= StartupPolls THEN unifiedReturn(unifiedCleanup(X), i, FALSE)
  ELSE IF X.u.mcpoProcess = 0 \/ X.u.mcpoPort = NoPort
       THEN USuspend(X, i, "poll", UnifiedPollInterval, waited)
       ELSE USuspend(X, i, "probe", 0, waited)

\* checkHealth after its requests, and the rest of start when it says true
checkHealthDone(X, i, ok) ==
  IF ok
  THEN unifiedReturn([X EXCEPT !.u.isHealthy = TRUE, !.u.streak = 0], i, TRUE)
  ELSE USuspend([X EXCEPT !.u.isHealthy = FALSE], i, "poll",
                UnifiedPollInterval, X.u.calls[i].waited)

\* start up to its first suspension
unifiedStart(X, i) ==
  IF X.u.mcpoProcess # 0 THEN unifiedReturn(X, i, TRUE)
  ELSE IF allocatedPortOf(X, UnifiedId) = NoPort
       THEN unifiedReturn(X, i, FALSE)
       ELSE waitForStartup(
              [allocatePort(X, UnifiedId) EXCEPT
                 !.u.mcpoPort = allocatedPortOf(X, UnifiedId),
                 !.u.procs = Append(@, [state |-> "running",
                                        killed |-> FALSE]),
                 !.u.mcpoProcess = Len(X.u.procs) + 1], i, 0)

\* What follows a call of stop: restart sleeps and starts, the shutdown
\* handler cleans up and exits
unifiedAfterStop(X, i) ==
  IF X.u.calls[i].shut THEN processExit(unifiedCleanup(X))
  ELSE USuspend(X, i, "pause", UnifiedRestartPause, 0)

\* stop up to its first suspension
unifiedStop(X, i) ==
  IF X.u.mcpoProcess # 0 /\ ~X.u.procs[X.u.mcpoProcess].killed
  THEN USuspend(unifiedKill(X, X.u.mcpoProcess), i, "stopGrace",
                UnifiedStopGrace, 0)
  ELSE unifiedAfterStop(unifiedCleanup(X), i)

\* stop after its sleep.  With mcpoProcess null the test of killed throws,
\* the catch returns false and cleanup is not called.
unifiedStopResume(X, i) ==
  IF X.u.mcpoProcess = 0 THEN unifiedAfterStop(X, i)
  ELSE IF ~X.u.procs[X.u.mcpoProcess].killed
       THEN unifiedAfterStop(
              unifiedCleanup(unifiedKill(X, X.u.mcpoProcess)), i)
       ELSE unifiedAfterStop(unifiedCleanup(X), i)

\* restart up to its first suspension
unifiedRestart(X, i) ==
  unifiedStop([X EXCEPT !.u.restartCount = @ + 1, !.u.streak = @ + 1], i)

\* The exit listener of setupProcessHandlers.  code is "crash" (a code other
\* than 0, no signal), "clean" (code 0) or "signal".
unifiedOnExit(X, code) ==
  IF code = "crash"
  THEN [X EXCEPT !.u.isHealthy = FALSE,
                 !.u.calls = Append(@, UFrame("restartTimer",
                                              UnifiedRestartDelay, 0,
                                              FALSE, FALSE))]
  ELSE [X EXCEPT !.u.isHealthy = FALSE]

UnifiedInit ==
  /\ allocatedPorts = {}
  /\ serverPorts = EmptyMap
  /\ runningProxies = EmptyMap
  /\ fallbackAttempts = EmptyMap
  /\ serverErrors = EmptyMap
  /\ currentServers = <<>>
  /\ healthHistory = EmptyMap
  /\ children = EmptyMap
  /\ tasks = EmptyMap
  /\ configFile = <<>>
  /\ cacheValidationCache = {}
  /\ fault = "none"
  /\ events = 0
  /\ log = <<>>
  /\ env = EnvFresh(TRUE, TRUE)
  /\ envRet = NoCall
  /\ unified = UnifiedFresh
  /\ multi = MultiFresh

\* The application calls start (index.js start, unified mode)
UnifiedBoot ==
  /\ ~unified.started
  /\ UCommit(unifiedStart(
       [UCur EXCEPT !.u.started = TRUE,
                    !.u.calls = Append(@, UFrame("call", 0, 0, TRUE, FALSE))],
       Len(unified.calls) + 1))

\* A timer expires: the restart timer of the exit listener, or the sleep of
\* stop, restart or waitForStartup
UnifiedFire(i) ==
  /\ ~unified.halted
  /\ unified.calls[i].timer = 0
  /\ unified.calls[i].pc # "probe"
  /\ UCommit(CASE unified.calls[i].pc = "restartTimer" ->
                    unifiedRestart(UCur, i)
               [] unified.calls[i].pc = "stopGrace" ->
                    unifiedStopResume(UCur, i)
               [] unified.calls[i].pc = "pause" -> unifiedStart(UCur, i)
               [] unified.calls[i].pc = "poll" ->
                    waitForStartup(UCur, i, unified.calls[i].waited + 1))

\* The requests of checkHealth are answered: with 200 only by a running child
UnifiedProbe(i, ok) ==
  /\ ~unified.halted
  /\ unified.calls[i].pc = "probe"
  /\ ok => \E pid \in DOMAIN unified.procs :
              unified.procs[pid].state = "running"
  /\ UCommit(checkHealthDone(UCur, i, ok))

\* Time passes until the next timer expires
UnifiedTick ==
  /\ ~unified.halted
  /\ unified.calls # <<>>
  /\ \A i \in DOMAIN unified.calls :
        unified.calls[i].pc # "probe" /\ unified.calls[i].timer > 0
  /\ LET d == CHOOSE d \in { unified.calls[i].timer :
                               i \in DOMAIN unified.calls } :
                 \A i \in DOMAIN unified.calls : d <= unified.calls[i].timer
     IN UCommit([UCur EXCEPT !.u.calls =
                   [i \in DOMAIN @ |-> [@[i] EXCEPT !.timer = @ - d]]])

\* The child crashes: it exits by itself with a code other than 0
UnifiedCrash(pid) ==
  /\ ~unified.halted
  /\ unified.procs[pid].state = "running"
  /\ unified.crashes < MaxCrashes
  /\ UCommit(unifiedOnExit(
       [UCur EXCEPT !.u.procs[pid].state = "exited",
                    !.u.crashes = @ + 1], "crash"))

\* The child exits by itself with code 0
UnifiedCleanExit(pid) ==
  /\ ~unified.halted
  /\ unified.procs[pid].state = "running"
  /\ UCommit(unifiedOnExit(
       [UCur EXCEPT !.u.procs[pid].state = "exited"], "clean"))

\* The child dies of the signal it was sent
UnifiedSignalExit(pid) ==
  /\ ~unified.halted
  /\ unified.procs[pid].state = "dying"
  /\ UCommit(unifiedOnExit(
       [UCur EXCEPT !.u.procs[pid].state = "exited"], "signal"))

\* SIGTERM or SIGINT to the application (setupGracefulShutdown): stop, then
\* cleanup, then process.exit
UnifiedShutdown ==
  /\ ~unified.halted
  /\ unified.started
  /\ ~unified.shutdown
  /\ UCommit(unifiedStop(
       [UCur EXCEPT !.u.shutdown = TRUE,
                    !.u.calls = Append(@, UFrame("call", 0, 0, FALSE, TRUE))],
       Len(unified.calls) + 1))

UnifiedNext ==
  \/ UnifiedBoot
  \/ \E i \in DOMAIN unified.calls : UnifiedFire(i)
  \/ \E i \in DOMAIN unified.calls, ok \in BOOLEAN : UnifiedProbe(i, ok)
  \/ UnifiedTick
  \/ \E pid \in DOMAIN unified.procs : UnifiedCrash(pid)
  \/ \E pid \in DOMAIN unified.procs : UnifiedCleanExit(pid)
  \/ \E pid \in DOMAIN unified.procs : UnifiedSignalExit(pid)
  \/ UnifiedShutdown

UnifiedSpec == UnifiedInit /\ [][UnifiedNext]_vars

\* ------------- the supergateway processes of the multi-transport manager

\* Bound on the number of crashes of supergateway processes
MaxGatewayCrashes == 4

GatewayRestartCap == 3

GatewayRestartDelay == 5

GatewayStartWait == 3

GatewayCheckDelay == 5

GatewayForceDelay == 5

\* The manager and its PortManager as one value, threaded through a run
MCur ==
  [m |-> multi, allocatedPorts |-> allocatedPorts,
   serverPorts |-> serverPorts]

MCommit(X) ==
  /\ multi' = X.m
  /\ allocatedPorts' = X.allocatedPorts
  /\ serverPorts' = X.serverPorts
  /\ UNCHANGED <<runningProxies, fallbackAttempts, serverErrors,
                 currentServers, healthHistory, children, tasks,
                 cacheValidationCache, configFile, fault, events, log, env,
                 envRet, unified>>

MTimer(pc, timer, key, info) ==
  [pc |-> pc, timer |-> timer, key |-> key, info |-> info]

\* startSuperGatewayForServer up to its sleep.  Without a port it throws and
\* the catch sets the transport unhealthy.  The info object is a new one with
\* restartCount 0, and the exit listener of the child closes over it.
startSuperGatewayForServer(X, key) ==
  IF allocatedPortOf(X, key) = NoPort
  THEN [X EXCEPT !.m.transportHealth = MapSet(@, key, FALSE)]
  ELSE [allocatePort(X, key) EXCEPT
          !.m.infos = Append(@, [key |-> key,
                                 port |-> allocatedPortOf(X, key),
                                 restartCount |-> 0]),
          !.m.procs = Append(@, [state |-> "running", killed |-> FALSE,
                                 info |-> Len(X.m.infos) + 1]),
          !.m.supergatewayProcesses =
             MapSet(@, key, [info |-> Len(X.m.infos) + 1,
                             process |-> Len(X.m.procs) + 1]),
          !.m.timers = Append(@, MTimer("started", GatewayStartWait, key, 0))]

RECURSIVE startEach(_, _)
startEach(X, keys) ==
  IF keys = {} THEN X
  ELSE LET key == CHOOSE k \in keys : TRUE
       IN startEach(startSuperGatewayForServer(X, key), keys \ {key})

\* The exit listener of setupSuperGatewayHandlers for child pid.  processInfo
\* is the info object of the child that exited.
gatewayOnExit(X, pid, code) ==
  LET info == X.m.procs[pid].info
      key == X.m.infos[info].key
      Y == [X EXCEPT !.m.transportHealth = MapSet(@, key, FALSE)]
  IN IF code = "crash" /\ X.m.infos[info].restartCount < GatewayRestartCap
     THEN [Y EXCEPT !.m.infos[info].restartCount = @ + 1,
                    !.m.restarts[key] = @ + 1,
                    !.m.timers = Append(@, MTimer("restart",
                                                  GatewayRestartDelay,
                                                  key, info))]
     ELSE Y

MultiInit ==
  /\ allocatedPorts = {}
  /\ serverPorts = EmptyMap
  /\ runningProxies = EmptyMap
  /\ fallbackAttempts = EmptyMap
  /\ serverErrors = EmptyMap
  /\ currentServers = <<>>
  /\ healthHistory = EmptyMap
  /\ children = EmptyMap
  /\ tasks = EmptyMap
  /\ configFile = <<>>
  /\ cacheValidationCache = {}
  /\ fault = "none"
  /\ events = 0
  /\ log = <<>>
  /\ env = EnvFresh(TRUE, TRUE)
  /\ envRet = NoCall
  /\ unified = UnifiedFresh
  /\ multi = MultiFresh

\* startAllSuperGatewayTransports: every start runs up to its sleep
MultiStartAll ==
  /\ ~multi.started
  /\ MCommit(startEach([MCur EXCEPT !.m.started = TRUE], ProcessKeys))

\* A timer expires: the restart timer of the exit listener, the sleep of
\* startSuperGatewayForServer, the delayed first health check, whose request
\* is answered with ok, or the timer of stop, whose cleanup calls
\* portManager.releasePort and ends the application as in MultiSignalExit
MultiFire(i, ok) ==
  /\ ~multi.halted
  /\ multi.timers[i].timer = 0
  /\ ok => /\ multi.timers[i].pc = "check"
           /\ \E pid \in DOMAIN multi.procs :
                 /\ multi.procs[pid].state = "running"
                 /\ multi.infos[multi.procs[pid].info].key =
                      multi.timers[i].key
  /\ LET t == multi.timers[i]
         X == [MCur EXCEPT !.m.timers = UDrop(@, i)]
     IN MCommit(CASE t.pc = "restart" ->
                       startSuperGatewayForServer(X, t.key)
                  [] t.pc = "started" ->
                       [X EXCEPT !.m.transportHealth = MapSet(@, t.key, FALSE),
                                 !.m.timers =
                                    Append(@, MTimer("check",
                                                     GatewayCheckDelay,
                                                     t.key, 0))]
                  [] t.pc = "check" ->
                       [X EXCEPT !.m.transportHealth = MapSet(@, t.key, ok)]
                  [] t.pc = "force" ->
                       [X EXCEPT !.m.halted = TRUE, !.m.timers = <<>>])

\* Time passes until the next timer expires
MultiTick ==
  /\ ~multi.halted
  /\ multi.timers # <<>>
  /\ \A i \in DOMAIN multi.timers : multi.timers[i].timer > 0
  /\ LET d == CHOOSE d \in { multi.timers[i].timer :
                               i \in DOMAIN multi.timers } :
                 \A i \in DOMAIN multi.timers : d <= multi.timers[i].timer
     IN MCommit([MCur EXCEPT !.m.timers =
                   [i \in DOMAIN @ |-> [@[i] EXCEPT !.timer = @ - d]]])

\* A supergateway process exits by itself with a code other than 0
MultiCrash(pid) ==
  /\ ~multi.halted
  /\ multi.procs[pid].state = "running"
  /\ multi.crashes < MaxGatewayCrashes
  /\ MCommit(gatewayOnExit(
       [MCur EXCEPT !.m.procs[pid].state = "exited",
                    !.m.crashes = @ + 1], pid, "crash"))

\* A supergateway process exits by itself with code 0
MultiCleanExit(pid) ==
  /\ ~multi.halted
  /\ multi.procs[pid].state = "running"
  /\ MCommit(gatewayOnExit(
       [MCur EXCEPT !.m.procs[pid].state = "exited"], pid, "clean"))

\* A supergateway process dies of the SIGTERM of stop.  After the exit
\* listener the cleanup listener of stop calls portManager.releasePort, which
\* PortManager does not have: the TypeError ends the application.
MultiSignalExit(pid) ==
  /\ ~multi.halted
  /\ multi.procs[pid].state = "dying"
  /\ MCommit([gatewayOnExit(
                [MCur EXCEPT !.m.procs[pid].state = "exited"], pid, "signal")
              EXCEPT !.m.halted = TRUE, !.m.timers = <<>>])

\* stop for one entry of supergatewayProcesses: a process that was not sent a
\* signal yet is sent SIGTERM, and a timer of 5 seconds is set
stopGateway(X, key) ==
  LET pid == X.m.supergatewayProcesses[key].process
  IN IF X.m.procs[pid].killed THEN X
     ELSE [X EXCEPT
             !.m.procs[pid] =
                IF @.state = "exited" THEN @
                ELSE [@ EXCEPT !.state = "dying", !.killed = TRUE],
             !.m.timers = Append(@, MTimer("force", GatewayForceDelay,
                                           key, 0))]

RECURSIVE stopEach(_, _)
stopEach(X, keys) ==
  IF keys = {} THEN X
  ELSE LET key == CHOOSE k \in keys : TRUE
       IN stopEach(stopGateway(X, key), keys \ {key})

\* stop after its wait: the maps are cleared and stop returns.  The stop of
\* the base class finds no unified bridge process and changes nothing.
stopReturn(X) ==
  [X EXCEPT !.m.supergatewayProcesses = EmptyMap,
            !.m.transportHealth = EmptyMap,
            !.m.stopped = TRUE]

\* stop up to its wait for the children; with no child to wait for it goes
\* on to its end
MultiStop ==
  /\ ~multi.halted
  /\ ~multi.stopping
  /\ LET X == stopEach([MCur EXCEPT !.m.stopping = TRUE],
                       DOMAIN multi.supergatewayProcesses)
     IN MCommit(IF \E i \in DOMAIN X.m.timers : X.m.timers[i].pc = "force"
                THEN X ELSE stopReturn(X))

MultiNext ==
  \/ MultiStartAll
  \/ \E i \in DOMAIN multi.timers, ok \in BOOLEAN : MultiFire(i, ok)
  \/ MultiTick
  \/ \E pid \in DOMAIN multi.procs : MultiCrash(pid)
  \/ \E pid \in DOMAIN multi.procs : MultiCleanExit(pid)
  \/ \E pid \in DOMAIN multi.procs : MultiSignalExit(pid)
  \/ MultiStop

MultiSpec == MultiInit /\ [][MultiNext]_vars

\* ------------------------------- the health monitor over several cycles

\* Bound on the number of cycles of the health monitor
MaxCycles == 6

\* One server, started by the first load; nothing is wrong with the host
MonitorInit ==
  /\ allocatedPorts = {}
  /\ serverPorts = EmptyMap
  /\ runningProxies = EmptyMap
  /\ fallbackAttempts = EmptyMap
  /\ serverErrors = EmptyMap
  /\ currentServers = <<>>
  /\ healthHistory = EmptyMap
  /\ children = EmptyMap
  /\ tasks = [t \in {BootTask} |-> <<[pc |-> "ld_read", retry |-> FALSE]>>]
  /\ configFile = <<SpecA>>
  /\ cacheValidationCache = {}
  /\ fault = "none"
  /\ events = 0
  /\ log = <<>>
  /\ env = EnvFresh(TRUE, TRUE)
  /\ envRet = NoCall
  /\ unified = UnifiedFresh
  /\ multi = MultiFresh

\* The cron job of the health monitor fires, one of a bounded number of times
MonitorCycle ==
  /\ MonTask \notin DOMAIN tasks
  /\ Started
  /\ events < MaxCycles
  /\ events' = events + 1
  /\ Commit(monNext(Push(Cur, MonTask,
                         [pc |-> "mn_next", list |-> getProxyStatuses(Cur),
                          k |-> 1]),
                    MonTask))
  /\ UNCHANGED <<configFile, fault>>

MonitorNext ==
  \/ Tick
  \/ \E t \in DOMAIN tasks : StopGraceElapsed(t)
  \/ \E t \in DOMAIN tasks : WarmupElapsed(t)
  \/ \E t \in DOMAIN tasks : CooldownElapsed(t)
  \/ \E t \in DOMAIN tasks : RestartPauseElapsed(t)
  \/ \E t \in DOMAIN tasks : ExitDelayElapsed(t)
  \/ \E t \in DOMAIN tasks : ReadComplete(t)
  \/ \E t \in DOMAIN tasks : SpawnComplete(t)
  \/ \E t \in DOMAIN tasks, outcome \in {"ok", "auth", "fail"} :
       ProbeComplete(t, outcome)
  \/ \E t \in DOMAIN tasks, outcome \in {"ok", "ok401", "auth", "fail"} :
       MonProbeComplete(t, outcome)
  \/ \E pid \in DOMAIN children, code \in {"null", "0"} : TermExit(pid, code)
  \/ MonitorCycle

MonitorSpec == MonitorInit /\ [][MonitorNext]_vars

\* ------------------------- a reconcile pass with a new and a changed server

\* The file after the change: b is new, a has lost its proxyType key
ChangedDoc == <<SpecB, SpecA>>

\* Server a, with an explicit proxyType, is started by the first load
ReconcileInit ==
  /\ allocatedPorts = {}
  /\ serverPorts = EmptyMap
  /\ runningProxies = EmptyMap
  /\ fallbackAttempts = EmptyMap
  /\ serverErrors = EmptyMap
  /\ currentServers = <<>>
  /\ healthHistory = EmptyMap
  /\ children = EmptyMap
  /\ tasks = [t \in {BootTask} |-> <<[pc |-> "ld_read", retry |-> FALSE]>>]
  /\ configFile = <<SpecA2>>
  /\ cacheValidationCache = {}
  /\ fault = "none"
  /\ events = 0
  /\ log = <<>>
  /\ env = EnvFresh(TRUE, TRUE)
  /\ envRet = NoCall
  /\ unified = UnifiedFresh
  /\ multi = MultiFresh

\* The passes that may run after the first load
MaxPasses == 2

PassTasks == { <<"rec", k>> : k \in 1..MaxPasses }

\* POST /config/reload, also while an earlier pass is still running
ReloadPass(t) ==
  /\ t \notin DOMAIN tasks
  /\ \A u \in PassTasks : u[2] < t[2] => u \in DOMAIN tasks
  /\ Started
  /\ events < MaxPasses
  /\ events' = events + 1
  /\ Commit(Push(Cur, t, [pc |-> "ld_read", retry |-> FALSE]))
  /\ UNCHANGED <<configFile, fault>>

ReconcileNext ==
  \/ Tick
  \/ \E t \in DOMAIN tasks : StopGraceElapsed(t)
  \/ \E t \in DOMAIN tasks : WarmupElapsed(t)
  \/ \E t \in DOMAIN tasks : CooldownElapsed(t)
  \/ \E t \in DOMAIN tasks : ExitDelayElapsed(t)
  \/ \E t \in DOMAIN tasks : ReadComplete(t)
  \/ \E t \in DOMAIN tasks : SpawnComplete(t)
  \/ \E t \in DOMAIN tasks, outcome \in {"ok", "auth", "fail"} :
       ProbeComplete(t, outcome)
  \/ \E pid \in DOMAIN children, code \in {"0", "1"} : ChildExit(pid, code)
  \/ \E pid \in DOMAIN children, code \in {"null", "0"} : TermExit(pid, code)
  \/ \E t \in RecTasks : ConfigChange(ChangedDoc, t)
  \/ \E t \in PassTasks : ReloadPass(t)

ReconcileSpec == ReconcileInit /\ [][ReconcileNext]_vars


\* ------------------------------------------------------------- properties

\* Nothing is in progress: no async call is suspended and no child that was
\* signalled is still ending
Quiescent ==
  /\ DOMAIN tasks = {}
  /\ \A pid \in DOMAIN children : children[pid].state # "term"

LogHas(kind, sid) ==
  \E i \in 1..Len(log) : log[i].kind = kind /\ log[i].sid = sid

ChildrenOf(sid) == { pid \in DOMAIN children : children[pid].sid = sid }

\* Failed for good: an error is recorded for the server, or a child of it
\* has ended by itself, or the retry limit is reached, or no proxy type is
\* left to try for its spec
PermanentFailure(server) ==
  \/ server.id \in DOMAIN serverErrors
  \/ \E pid \in ChildrenOf(server.id) :
        children[pid].state = "exited" /\ ~children[pid].killed
  \/ /\ server.id \in DOMAIN fallbackAttempts
     /\ \/ RetryLimitReached(fallbackAttempts[server.id])
        \/ TryOrder(server, fallbackAttempts[server.id]) = <<>>

\* C1: once the reload of the present configuration file has completed and
\* nothing is in progress, every server id in the registry is in the desired
\* set, and every desired server that needs a proxy, has not failed for good
\* and was not stopped on request is in the registry.  (A reload of an empty
\* file is aborted, so the file is taken to be non-empty; a server stopped
\* on request has left the current-server set.)
C1_SteadyState ==
  (Quiescent /\ configFile # <<>>) =>
     /\ DOMAIN runningProxies \subseteq DocIds(configFile)
     /\ \A i \in 1..Len(configFile) :
          ( /\ configFile[i].needsProxy
            /\ configFile[i].id \in CurIds(Cur)
            /\ ~PermanentFailure(configFile[i]) )
             => configFile[i].id \in DOMAIN runningProxies

\* C2: the ports marked allocated in the pool are the ports held by the
\* registry entries.  Stated for the states in which nothing is in progress,
\* where no start is between its allocation and its registration.
C2_PortsMatchRegistry ==
  Quiescent =>
     allocatedPorts = { runningProxies[id].port : id \in DOMAIN runningProxies }

\* C3: no port is held by two registry entries
C3_PortsDistinct ==
  \A id1, id2 \in DOMAIN runningProxies :
     id1 # id2 => runningProxies[id1].port # runningProxies[id2].port

\* C4: totalAttempts never exceeds the retry limit, and a start of a server
\* that is not running, requested when totalAttempts has reached the limit,
\* is refused and spawns no child
C4_RetryLimit ==
  /\ \A id \in DOMAIN fallbackAttempts :
        fallbackAttempts[id].totalAttempts <= maxRetryAttempts
  /\ \A i \in 1..Len(log) :
        (log[i].kind = "start" /\ log[i].n >= maxRetryAttempts)
           => /\ LogHas("refused", log[i].sid)
              /\ ~LogHas("spawn", log[i].sid)

C4_Witness ==
  \E i \in 1..Len(log) :
     /\ log[i].kind = "start"
     /\ log[i].n >= maxRetryAttempts
     /\ fallbackAttempts[log[i].sid].totalAttempts = maxRetryAttempts

\* C5: a child launched from a spec that names its proxy type runs that
\* type, and a start of such a spec has no other type among its candidates
C5_ExplicitTypeOnly ==
  /\ \A pid \in DOMAIN children :
        children[pid].cfg.hasProxyType
           => children[pid].type = children[pid].cfg.proxyType
  /\ \A t \in DOMAIN tasks : \A k \in 1..Len(tasks[t]) :
        ("order" \in DOMAIN tasks[t][k] /\ tasks[t][k].cfg.hasProxyType)
           => \A j \in 1..Len(tasks[t][k].order) :
                 tasks[t][k].order[j] = tasks[t][k].cfg.proxyType

C5_Witness ==
  \E pid \in DOMAIN children :
     /\ children[pid].cfg.hasProxyType
     /\ children[pid].sid \in DOMAIN serverErrors
     /\ serverErrors[children[pid].sid].errorType = "health"

C7_WhitelistBeforeSpawn ==
  \A pid \in DOMAIN children :
     children[pid].cfg.transport = "stdio"
        => validateCommand(children[pid].cfg.command)

\* C8: a step of a reload that has read an empty server list while more
\* than two servers are live stops nothing and leaves the registry, the
\* port pool and the current-server set as they are
C8_EmptyReloadAborted ==
  [][ (LogHas("emptyread", "-")' /\ Cardinality(DOMAIN runningProxies) > MassShutdownGuard)
        => UNCHANGED <<runningProxies, allocatedPorts, serverPorts,
                       currentServers, children>> ]_vars

C8_Witness ==
  /\ LogHas("emptyread", "-")
  /\ Cardinality(DOMAIN runningProxies) > MassShutdownGuard
  /\ DOMAIN tasks = {}

\* C9: servers a, b and c were started once each, in this order, the first
\* children of a and c are alive, a and c are healthy if they are in the
\* registry, the monitor has not run, and the configuration file has been
\* rewritten to remove b.  Once the reload is over and nothing
\* is in progress, b is stopped and holds no port, and a and c have the
\* child, the port and the restartCount they had.
C9_RemoveOne ==
  ( /\ Quiescent
    /\ configFile = <<SpecA, SpecC>>
    /\ {1, 2, 3} \subseteq DOMAIN children
    /\ children[1].sid = "a" /\ children[2].sid = "b" /\ children[3].sid = "c"
    /\ children[1].state = "running" /\ children[3].state = "running"
    /\ \A id \in {"a", "c"} \cap DOMAIN runningProxies : runningProxies[id].healthy
    /\ DOMAIN healthHistory = {} )
  => /\ "b" \notin DOMAIN runningProxies
     /\ "b" \notin DOMAIN serverPorts
     /\ \A pid \in ChildrenOf("b") : children[pid].state = "exited"
     /\ {"a", "c"} \subseteq DOMAIN runningProxies
     /\ runningProxies["a"].process = 1 /\ runningProxies["c"].process = 3
     /\ runningProxies["a"].port = children[1].port
     /\ runningProxies["c"].port = children[3].port
     /\ runningProxies["a"].restartCount = 0
     /\ runningProxies["c"].restartCount = 0

\* C10: when every child launched for a stdio server has exited with code 1
\* and nothing is in progress, the server was launched four times (the
\* first launch and three automatic restarts), it is not running, and the
\* error recorded for it is of type runtime
C10_CrashLoop ==
  \A sid \in Servers :
     ( /\ Quiescent
       /\ ChildrenOf(sid) # {}
       /\ \A pid \in ChildrenOf(sid) :
             children[pid].cfg.transport = "stdio" /\ children[pid].code = "1" )
     => /\ Cardinality(ChildrenOf(sid)) = RestartCap + 1
        /\ sid \notin DOMAIN runningProxies
        /\ sid \in DOMAIN serverErrors
        /\ serverErrors[sid].errorType = "runtime"


\* C11: no step releases a port held by one server and allocates it to
\* another server (no time passes within a step, so the port would change
\* hands less than portReuseDelay after its release)
C11_PortReuseDelay ==
  [][ \A id1, id2 \in Servers :
        ( /\ id1 # id2
          /\ id1 \in DOMAIN serverPorts
          /\ id2 \notin DOMAIN serverPorts
          /\ id2 \in DOMAIN serverPorts' )
        => serverPorts'[id2] # serverPorts[id1] ]_vars

\* C14: a start of a server whose last attempt is more than 30 minutes old
\* is not refused for its earlier attempts
C14_ResetBeforeRefusal ==
  [][ \A id \in DOMAIN fallbackAttempts :
        (fallbackAttempts[id].stale /\ LogHas("start", id)')
           => ~LogHas("refused", id)' ]_vars


\* C12: a call allocatePort(id) for an id that holds a port returns that
\* port and changes neither serverPorts nor allocatedPorts
C12_AllocateIdempotent ==
  [][ \A id \in PortClients :
        (LogHas("allocatePort", id)' /\ id \in DOMAIN serverPorts)
          => /\ log'[2].n = serverPorts[id]
             /\ UNCHANGED <<serverPorts, allocatedPorts>> ]_vars

C12_Witness ==
  /\ Len(log) = 2
  /\ log[1].kind = "allocatePort"
  /\ log[1].n # NoPort
  /\ log[2].n = log[1].n
  /\ Cardinality(allocatedPorts) > 1

\* C13: a call allocatePort(id) for an id that holds no port returns the
\* lowest port of the range that is not allocated and marks it allocated
\* for the id; when every port is allocated it returns null and changes
\* nothing
C13_LowestFree ==
  [][ \A id \in PortClients :
        (LogHas("allocatePort", id)' /\ id \notin DOMAIN serverPorts)
          => IF Ports \subseteq allocatedPorts
             THEN /\ log'[2].n = NoPort
                  /\ UNCHANGED <<serverPorts, allocatedPorts>>
             ELSE /\ log'[2].n \in Ports \ allocatedPorts
                  /\ \A q \in Ports \ allocatedPorts : log'[2].n <= q
                  /\ allocatedPorts' = allocatedPorts \cup {log'[2].n}
                  /\ serverPorts' = MapSet(serverPorts, id, log'[2].n) ]_vars

\* a port freed by deallocatePort, below a port still allocated, is given out
C13_Witness ==
  /\ Len(log) = 2
  /\ log[1].kind = "allocatePort"
  /\ log[1].n = NoPort
  /\ log[2].n # NoPort
  /\ \E q \in allocatedPorts : q > log[2].n
  /\ \E id \in PortClients : id \notin DOMAIN serverPorts

\* C15: a load of a server's environment that directly follows a successful
\* save of the map V for that server returns exactly V, in every storage mode.
C15_SaveThenLoad ==
  [][(/\ envRet.op = "save"
      /\ envRet'.op = "load"
      /\ envRet'.serverId = envRet.serverId)
     => \A m \in StorageModes :
          envRet.out[m] = TRUE => envRet'.out[m] = envRet.arg]_vars

\* C16: at every moment, a crash between the temp-file write and the rename
\* included, the env file of a server in a directory mode is there exactly
\* if a save of that server has completed (and no delete since), and it is
\* then a whole file equal to the bundle of the last completed save.
C16_AtomicSave ==
  \A m \in StorageModes \ {"memory"}, id \in EnvIds :
     LET f == getEnvFilePath(m, id)
     IN /\ f \in DOMAIN env.store[m].disk <=> id \in DOMAIN env.saved[m]
        /\ f \in DOMAIN env.store[m].disk =>
              env.store[m].disk[f] = Whole(env.saved[m][id])

C16_Witness ==
  /\ envRet.op = "crash"
  /\ \E m \in StorageModes \ {"memory"}, id \in EnvIds :
        LET f == getEnvFilePath(m, id)
            d == env.store[m].disk
        IN /\ f \in DOMAIN d
           /\ tempPath(f) \in DOMAIN d
           /\ d[tempPath(f)].written
           /\ d[tempPath(f)].data.variables # d[f].data.variables

\* The store st with other secret values: every stored variable keeps its
\* name and gets the value g gives it, on disk and in the cache
Revalued(st, g) ==
  LET file(c) ==
        IF ~c.written THEN c
        ELSE Whole([c.data EXCEPT !.variables =
                      [k \in DOMAIN c.data.variables |->
                         [c.data.variables[k] EXCEPT !.data = <<@[1], g[k]>>]]])
      entry(e) == [e EXCEPT !.data = [k \in DOMAIN e.data |-> g[k]]]
  IN [disk |-> [f \in DOMAIN st.disk |-> file(st.disk[f])],
      cache |-> [id \in DOMAIN st.cache |-> entry(st.cache[id])]]

\* C17: what getEnvironmentSummary has returned is what it returns on every
\* store that differs from the present one only in the secret values.
C17_SummaryHidesValues ==
  envRet.op = "summary" =>
    \A m \in StorageModes, g \in [EnvKeys -> EnvValues \ {""}] :
       getEnvironmentSummary(env, m, Revalued(env.store[m], g), envRet.serverId)
         = envRet.out[m]

C17_Witness ==
  /\ envRet.op = "summary"
  /\ \E m \in StorageModes :
        /\ envRet.out[m].exists
        /\ DOMAIN envRet.out[m].variables = EnvKeys

\* C18: a load of a server's environment that directly follows a completed
\* delete for that server returns no value in any storage mode, whatever
\* was cached before the delete.
C18_DeleteThenLoad ==
  [][(/\ envRet.op = "delete"
      /\ envRet'.op = "load"
      /\ envRet'.serverId = envRet.serverId)
     => \A m \in StorageModes : envRet'.out[m] = EmptyMap]_vars

\* C19: after the same sequence of calls, a load or a summary returns the
\* same result in the persistent-directory, tmpfs-directory and memory-only
\* modes.
C19_ModesAgree ==
  envRet.op \in {"load", "summary"} =>
    \A m1, m2 \in StorageModes : envRet.out[m1] = envRet.out[m2]

\* The servers getMCPServers returned for the entry named name
ParsedAs(name) ==
  { currentServers[i] : i \in { j \in 1..Len(currentServers) :
                                   currentServers[j].id = name } }

\* C20: after getMCPServers, every entry of the file is classified by the
\* first rule that fits it: sse with a url gives an sse server with
\* needsProxy true; else streamable-http with a url gives a streamable-http
\* server with needsProxy true; else a command gives a stdio server whose
\* needsProxy is false only if the entry says false and which has a
\* proxyType exactly if the entry has one; else the entry yields no server.
\* The other entries yield theirs either way, in the order of the file.
C20_FirstMatchingRule ==
  log # <<>> =>
    /\ \A i \in 1..Len(configFile) :
         LET name == configFile[i][1]
             e == configFile[i][2]
             hasUrl == e.url \notin {Absent, ""}
             hasCommand == e.command \notin {Absent, ""}
             r == CHOOSE x \in ParsedAs(name) : TRUE
         IN IF e.transport = "sse" /\ hasUrl
            THEN /\ Cardinality(ParsedAs(name)) = 1
                 /\ r.type = "sse" /\ r.needsProxy /\ r.url = e.url
            ELSE IF e.transport = "streamable-http" /\ hasUrl
            THEN /\ Cardinality(ParsedAs(name)) = 1
                 /\ r.type = "streamable-http" /\ r.needsProxy /\ r.url = e.url
            ELSE IF hasCommand
            THEN /\ Cardinality(ParsedAs(name)) = 1
                 /\ r.type = "stdio" /\ r.command = e.command
                 /\ r.needsProxy = (e.needsProxy # "false")
                 /\ "proxyType" \in DOMAIN r <=> e.proxyType # Absent
                 /\ "proxyType" \in DOMAIN r => r.proxyType = e.proxyType
            ELSE ParsedAs(name) = {}
    /\ \A i, j \in 1..Len(currentServers) :
         i < j => \E k, l \in 1..Len(configFile) :
                    /\ k < l
                    /\ configFile[k][1] = currentServers[i].id
                    /\ configFile[l][1] = currentServers[j].id

\* An entry with a transport and a url that fits no rule, and with an empty
\* command, is skipped ahead of an entry that is kept
C20_Witness ==
  /\ log # <<>>
  /\ Len(configFile) = 2
  /\ configFile[1][2].transport = "stdio"
  /\ configFile[1][2].url = "http://h/sse"
  /\ configFile[1][2].command = ""
  /\ Len(currentServers) = 1
  /\ currentServers[1].id = "b"

\* C23: the exit of a child that stopProxy has sent SIGTERM is an expected
\* exit: the step in which such a child ends schedules no automatic restart
\* of its server.
C23_StopExitExpected ==
  [][\A pid \in DOMAIN children :
       (/\ children[pid].state = "term"
        /\ children'[pid].state = "exited")
       => ~LogHas("autorestart", children[pid].sid)']_vars

\* The tasks that are inside startProxy for the server id: from the port
\* allocation to the return
Starting(id) ==
  { t \in DOMAIN tasks :
      \E i \in 1..Len(tasks[t]) :
         /\ tasks[t][i].pc \in {"sp_iter", "sp_spawn", "sp_warm", "sp_probe",
                                "sp_fbstop", "sp_cool"}
         /\ tasks[t][i].cfg.id = id }

\* The tasks that are inside stopProxy for the server id
Stopping(id) ==
  { t \in DOMAIN tasks : Head(tasks[t]).pc = "st_wait" /\ Head(tasks[t]).sid = id }

\* C24: while a start of a server is in progress no other start and no
\* stop of that server is in progress, apart from the stop the start makes
\* itself, and no exit handler of that server runs.
C24_SerializedPerServer ==
  [][\A id \in Servers :
       Starting(id) # {} =>
         /\ Cardinality(Starting(id)') <= 1
         /\ Stopping(id)' \subseteq Starting(id)'
         /\ ~LogHas("autorestart", id)'
         /\ \A pid \in ChildrenOf(id) :
              (children[pid].listeners /\ children[pid].state # "exited"
               /\ id \in DOMAIN runningProxies)
              => children'[pid].state # "exited"]_vars

\* The children of the server id that have not ended
Live(id) == { pid \in ChildrenOf(id) : children[pid].state # "exited" }

\* C25: at every moment at most one child process of a server is alive.
C25_OneLiveChild == \A id \in Servers : Cardinality(Live(id)) <= 1

\* The start of the server id is in its warm-up window: the child is
\* registered and the first probe after the warm-up has not returned
InWarmup(id) ==
  \E t \in DOMAIN tasks :
     /\ Head(tasks[t]).pc \in {"sp_warm", "sp_probe"}
     /\ Head(tasks[t]).cfg.id = id

\* C26: a probe of the health monitor that returns while the start of a
\* server is in its warm-up window causes no restart of that server.
C26_NoRestartInWarmup ==
  [][\A id \in Servers :
       InWarmup(id) => ~(LogHas("remedy", id)' /\ LogHas("restart", id)')]_vars

C28_FailedStartHoldsNoPort ==
  [][\A id \in Servers :
       LogHas("untried", id)' => id \notin DOMAIN serverPorts']_vars

\* C30: when stopProxy has completed, the child it was to stop is no longer
\* running.
C30_StoppedChildIsGone ==
  [][\A i \in 1..Len(log') :
       log'[i].kind = "stopped" => children'[log'[i].n].state = "exited"]_vars

\* The registry entries and ports of the servers other than id
Others(reg, id) == [x \in DOMAIN reg \ {id} |-> reg[x]]

\* C29: (a) the step that completes the stopProxy of POST /servers/:id/stop
\* leaves id without registry entry and without port, takes no port but
\* id's out of the pool, and leaves the fallback state of every server and
\* the entries and ports of the other servers as they were; (b) the stop of
\* a server that has no registry entry changes neither registry, ports nor
\* fallback state, and succeeds: the handler drops the server from
\* currentServers.
C29_StopFrame ==
  [][/\ (/\ Expired(ApiTask, "st_wait")
         /\ Len(tasks[ApiTask]) = 2
         /\ tasks[ApiTask][2].pc = "api_stop"
         /\ ApiTask \notin DOMAIN tasks')
        => LET id == Head(tasks[ApiTask]).sid IN
           /\ id \notin DOMAIN runningProxies'
           /\ id \notin DOMAIN serverPorts'
           /\ allocatedPorts' =
                allocatedPorts \ { serverPorts[x] : x \in {id} \cap DOMAIN serverPorts }
           /\ fallbackAttempts' = fallbackAttempts
           /\ Others(runningProxies', id) = Others(runningProxies, id)
           /\ Others(serverPorts', id) = Others(serverPorts, id)
     /\ \A id \in CurIds(Cur) \ DOMAIN runningProxies :
          (/\ ApiTask \notin DOMAIN tasks
           /\ tasks' = tasks
           /\ events' = events + 1
           /\ currentServers' # currentServers)
          => /\ id \notin CurIds(Cur)' => currentServers' = CurDel(Cur, id).currentServers
             /\ runningProxies' = runningProxies
             /\ serverPorts' = serverPorts
             /\ allocatedPorts' = allocatedPorts
             /\ fallbackAttempts' = fallbackAttempts]_vars

\* An operator's stop has completed for a server that has a fallback state
\* while another server is running on its port
C29_Witness ==
  /\ \E id \in Servers :
        /\ LogHas("stopped", id)
        /\ ApiTask \notin DOMAIN tasks
        /\ id \notin CurIds(Cur)
        /\ id \in DOMAIN fallbackAttempts
        /\ \E x \in DOMAIN runningProxies : x # id /\ x \in DOMAIN serverPorts
  /\ events = 1

\* C21: in unified mode the child is restarted after a crash at most three
\* consecutive times: restart is never called a fourth time since start last
\* saw the child healthy.
C21_AtMostThreeConsecutiveRestarts == unified.streak <= 3

\* C22: a supergateway process of multi-transport mode is restarted at most
\* three times on unexpected exit: no process key has a fourth restart
\* scheduled.
C22_GatewayRestartedAtMostThrice ==
  \A key \in ProcessKeys : multi.restarts[key] <= 3

\* The health history of serverId has a new record at the end of the step
Probed(serverId) ==
  /\ serverId \in DOMAIN healthHistory'
  /\ Len(healthHistory'[serverId]) >
       (IF serverId \in DOMAIN healthHistory
        THEN Len(healthHistory[serverId]) ELSE 0)

\* C31: after a periodic probe of a server with a registry entry, the healthy
\* flag of the entry equals the outcome of the probe, and after a successful
\* probe no error is recorded for the server.
C31_ProbeSetsHealthyFlag ==
  [][\A id \in Servers :
       Probed(id) /\ id \in DOMAIN runningProxies'
         => LET latest == healthHistory'[id][Len(healthHistory'[id])]
            IN /\ runningProxies'[id].healthy = latest.healthy
               /\ latest.healthy => id \notin DOMAIN serverErrors']_vars

\* The number of failed records at the tail of a health history
TailFailures(h) ==
  Cardinality({ i \in 1..Len(h) : \A j \in i..Len(h) : ~h[j].healthy })

\* The failed records among the last ten of a health history
RecentFailures(h) ==
  Cardinality({ i \in 1..Len(h) : i > Len(h) - 10 /\ ~h[i].healthy })

\* The history calls for a restart: no authError on the latest record, and
\* five failures at the tail or nine tenths of the last ten records failed
CallsForRestart(h) ==
  /\ ~h[Len(h)].authError
  /\ \/ TailFailures(h) >= 5
     \/ 10 * RecentFailures(h) >=
          9 * (IF Len(h) > 10 THEN 10 ELSE Len(h))

AfterFirstRemedy ==
  /\ MonTask \in DOMAIN tasks
  /\ \E i \in 1..Len(tasks[MonTask]) : tasks[MonTask][i].pc = "mn_rem1"

\* C33: one probe result leads to at most one restart request for the server:
\* the monitor does not call restartProxy for the high_failure_rate alert of a
\* record for whose consecutive_failures alert it has called it already.
C33_OneRestartPerProbe ==
  [][\A id \in Servers : LogHas("remedy", id)' => ~AfterFirstRemedy]_vars

\* Task t, which is in restartProxy between stopProxy and startProxy, takes
\* the step
RestartStarts(t) ==
  /\ Waiting(t, "rs_wait")
  /\ t \notin DOMAIN tasks' \/ Head(tasks'[t]).pc # "rs_wait"

\* C34: the startProxy of a restart is not refused on the ground that the
\* proxy type of the server was already attempted: it does not return false
\* for an empty try order.
C34_RestartNotRefused ==
  [][\A t \in DOMAIN tasks : \A id \in Servers :
       RestartStarts(t) /\ Head(tasks[t]).sid = id
       => ~LogHas("untried", id)']_vars

\* The automatic restart of the exit handler in task t ends with this step,
\* and the registry entry of the server is the one it has made
AutoRestartDone(t) ==
  /\ t[1] = "exit"
  /\ Waiting(t, "sp_probe")
  /\ t \notin DOMAIN tasks'
  /\ Head(tasks[t]).cfg.id \in DOMAIN runningProxies'
  /\ runningProxies'[Head(tasks[t]).cfg.id].process = Head(tasks[t]).proc

\* C35: after an automatic restart of a server by the exit handler the
\* restartCount of its registry entry counts the restart: it is at least 1.
C35_RestartCounted ==
  [][\A t \in DOMAIN tasks :
       AutoRestartDone(t)
         => runningProxies'[Head(tasks[t]).cfg.id].restartCount >= 1]_vars

\* The frame of reconcileProxies in task t
PassFrame(tk, t) == tk[t][Len(tk[t])]

\* C36: within one reconcile pass every stop of a server comes before any
\* start of a server: the pass does not go from a startProxy that has
\* returned to the stopProxy of a running server.
C36_StopsBeforeStarts ==
  [][\A t \in PassTasks :
       ~ /\ t \in DOMAIN tasks
         /\ t \in DOMAIN tasks'
         /\ PassFrame(tasks, t).pc = "rc_starting"
         /\ PassFrame(tasks', t).pc = "rc_upd_stop"
         /\ \E id \in Servers : LogHas("stop", id)']_vars

\* The reconcile pass of task t issues the stop of the running server id
ReconcileStops(t, id) ==
  /\ t \in DOMAIN tasks'
  /\ PassFrame(tasks', t).pc \in {"rc_stopping", "rc_upd_stop"}
  /\ t \in DOMAIN tasks => PassFrame(tasks, t).pc # PassFrame(tasks', t).pc
  /\ id \in DOMAIN runningProxies
  /\ LogHas("stop", id)'

\* The desired list holds the spec the running server id was started with
SameSpec(desired, id) ==
  /\ id \in DOMAIN runningProxies
  /\ \E j \in 1..Len(desired) :
       desired[j].id = id /\ runningProxies[id].config = Enhance(desired[j])

\* C37: a reconcile pass never stops or restarts a running server whose
\* spec in the file, merged with the environment, is the one the server
\* was started with.
C37_UnchangedNotStopped ==
  [][\A t \in {BootTask} \cup PassTasks : \A id \in Servers :
       ReconcileStops(t, id) => ~SameSpec(PassFrame(tasks', t).desired, id)]_vars

\* C38: a new error replaces the record of a server only if the record is
\* not more specific: a record of type auth is replaced only by another
\* auth error.
C38_AuthRecordKept ==
  [][\A id \in Servers :
       /\ id \in DOMAIN serverErrors
       /\ id \in DOMAIN serverErrors'
       /\ serverErrors[id].errorType = "auth"
       => serverErrors'[id].errorType = "auth"]_vars

\* C39: when stop has completed, or a failed start has cleaned up, the port
\* pool holds no allocation for the unified bridge.
C39_UnifiedPortReleased ==
  [][unified.mcpoPort # NoPort /\ unified'.mcpoPort = NoPort
     => UnifiedId \notin DOMAIN serverPorts']_vars

\* C40: stop completes, and when it has completed no port of a gateway
\* process is allocated: the application does not end before stop has
\* returned, and the step in which stop returns leaves no gateway port in
\* the pool.
C40_StopCompletesPortsReleased ==
  [][/\ multi'.halted => multi'.stopped
     /\ ~multi.stopped /\ multi'.stopped
        => \A key \in ProcessKeys : key \notin DOMAIN serverPorts']_vars

====
